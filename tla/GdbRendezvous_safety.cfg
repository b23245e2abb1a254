\* Three cores racing the rendezvous with every command of the host; core 2
\* runs OsGdbStubSmpInit at any point, possibly while the other two are
\* already being debugged.  The system can deadlock (see
\* GdbRendezvous_live.cfg), so deadlock is not reported here.  IInv is the
\* strengthened invariant that GdbRendezvous_proofs proves inductive.
CONSTANTS
  Core <- MCCore3
  FirstCore = 0
  LateCores <- MCLate
  NoCore = NoCore
SPECIFICATION Spec
CHECK_DEADLOCK FALSE
INVARIANTS TypeOK CountersAccount StepExclusive SlavesHeld IInv
