CONSTANTS
  Tasks = {A, B}
  Idle = Idle
  First = A
  Dead = Dead

SPECIFICATION Spec
INVARIANT ResumesOwnCode
