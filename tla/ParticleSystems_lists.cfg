CONSTANTS
  leader = leader  follower = follower  always = always
  Systems = {s1, s2, s3}
  Particles = {p1, p2, p3}
  Templates <- MCTemplates
  Priority <- MCPriority
  SlaveTemplate <- MCSlaveTemplate
  LastPriority = 2
  MaxParticles = 1
  MaxID = 3
  NoSystem = NoSystem
  NoParticle = NoParticle
  NoTemplate = NoTemplate
SPECIFICATION Spec
INVARIANT CountsMatch
INVARIANT LinksMutual
INVARIANT SlavesShareDestruction
INVARIANT IDsUnique
INVARIANT LimitKept
PROPERTY MakesRoomBelow
SYMMETRY Symmetry
