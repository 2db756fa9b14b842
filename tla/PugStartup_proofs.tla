------------------------- MODULE PugStartup_proofs -------------------------
(* Proofs about PugStartup, for any number of startup processes. *)
EXTENDS PugStartup, TLAPS

\* The goroutine of Finish gets past Wait only when nothing runs any more, and
\* past the send only when the receiver has the error.
FinisherOK ==
    /\ finisher \in {"sending", "closing", "closeErrs", "ended"} => Running = {}
    /\ done <=> finisher \in {"closeErrs", "ended"}
    /\ finisher \in {"closing", "closeErrs", "ended"} /\ groupErr # NoErr
          => receiver \in {"panicking", "ended"}

IInv == TypeOK /\ FinisherOK

USE DEF AllReturned, AfterWait, Receiver

LEMMA InitIInv == Init => IInv
  BY DEF Init, IInv, TypeOK, FinisherOK, Running

LEMMA NextIInv == IInv /\ [Next]_vars => IInv'
  <1> SUFFICES ASSUME IInv, [Next]_vars PROVE IInv'
    OBVIOUS
  <1> USE DEF IInv, TypeOK, FinisherOK, Running
  <1>1. ASSUME NEW t \in Tasks, AddProcess(t)
        PROVE  IInv'
    BY <1>1 DEF AddProcess
  <1>2. ASSUME NEW t \in Tasks, Succeed(t)
        PROVE  IInv'
    BY <1>2 DEF Succeed
  <1>3. ASSUME NEW t \in Tasks, Fail(t)
        PROVE  IInv'
    BY <1>3 DEF Fail
  <1>4. CASE Finish
    BY <1>4 DEF Finish
  <1>5. CASE WaitReturns
    BY <1>5 DEF WaitReturns
  <1>6. CASE SendErr
    BY <1>6 DEF SendErr
  <1>7. CASE CloseDone
    BY <1>7 DEF CloseDone
  <1>8. CASE CloseErrs
    BY <1>8 DEF CloseErrs
  <1>9. CASE ReceiveNil
    BY <1>9 DEF ReceiveNil
  <1>10. CASE ReceiverPanics
    BY <1>10 DEF ReceiverPanics
  <1>11. CASE UNCHANGED vars
    BY <1>11 DEF vars
  <1> QED
    BY <1>1, <1>2, <1>3, <1>4, <1>5, <1>6, <1>7, <1>8, <1>9, <1>10, <1>11 DEF Next, Goroutines

\* IsFinished, and so the ready endpoint, says yes only when every process that
\* was added has returned, and a failure has reached the receiver.
THEOREM ReadyComesLast == Spec => []ReadyIsLast
  <1>1. IInv => ReadyIsLast
    BY DEF IInv, FinisherOK, ReadyIsLast
  <1> QED
    BY <1>1, InitIInv, NextIInv, PTL DEF Spec

\* Startup implements Readiness: it becomes ready once, and not before all that
\* was added before Finish is over.
THEOREM StartupImplementsReadiness == Spec => Implements
  <1>1. Init => Promise!Init
    BY DEF Init, Promise!Init, Running
  <1>2. IInv /\ [Next]_vars => [Promise!Next]_(Promise!vars)
    <2> SUFFICES ASSUME IInv, [Next]_vars
                 PROVE  Promise!Next \/ UNCHANGED Promise!vars
      OBVIOUS
    <2> USE DEF IInv, TypeOK, Running, Promise!vars
    <2>1. ASSUME NEW t \in Tasks, AddProcess(t)
          PROVE  Promise!Add(t)
      BY <2>1 DEF AddProcess, Promise!Add
    <2>2. ASSUME NEW t \in Tasks, Succeed(t) \/ Fail(t)
          PROVE  Promise!Return(t)
      BY <2>2 DEF Succeed, Fail, Promise!Return
    <2>3. CASE Finish
      BY <2>3 DEF Finish, Promise!Close, Promise!Next
    <2>4. CASE CloseDone
      BY <2>4 DEF CloseDone, FinisherOK, Promise!BecomeReady, Promise!Next
    <2>5. CASE WaitReturns \/ SendErr \/ CloseErrs \/ ReceiveNil \/ ReceiverPanics
      BY <2>5 DEF WaitReturns, SendErr, CloseErrs, ReceiveNil, ReceiverPanics
    <2>6. CASE UNCHANGED vars
      BY <2>6 DEF vars
    <2> QED
      BY <2>1, <2>2, <2>3, <2>4, <2>5, <2>6 DEF Next, Goroutines, Promise!Next
  <1> QED
    BY <1>1, <1>2, InitIInv, NextIInv, PTL DEF Spec, Implements, Promise!Spec
=============================================================================
