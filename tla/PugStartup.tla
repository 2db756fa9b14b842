----------------------------- MODULE PugStartup -----------------------------
(***************************************************************************)
(* Startup of pugjs/startup.go: AddProcess hands functions to an errgroup, *)
(* Finish starts a goroutine that waits for them, passes the first error   *)
(* on an unbuffered channel and closes done, which is what IsFinished and  *)
(* the ready endpoint of controllers/ready.go look at.  The receiver of    *)
(* the channel is the goroutine of EventSubscriber.Notify (engine.go),     *)
(* which panics with the error it gets.                                    *)
(***************************************************************************)
EXTENDS Integers

CONSTANTS
    Tasks,        \* the functions that are passed to AddProcess
    NoErr         \* the nil error

ASSUME NoErrIsNoTask == NoErr \notin Tasks

VARIABLES
    task,      \* the goroutine of each function
    groupErr,  \* errgroup.Group.err: the task that failed first
    finisher,  \* the goroutine of Finish
    done,      \* Startup.done is closed
    errChan,   \* the channel that Finish returns
    receiver,  \* the goroutine that receives from it
    up         \* the process runs

vars == <<task, groupErr, finisher, done, errChan, receiver, up>>

Init ==
    /\ task = [t \in Tasks |-> "new"]
    /\ groupErr = NoErr
    /\ finisher = "none"
    /\ done = FALSE
    /\ errChan = "none"
    /\ receiver = "none"
    /\ up = TRUE

Running == {t \in Tasks : task[t] = "running"}

\* Callers add before they finish: AreaRoutedEvents precede ServerStartEvent.
AddProcess(t) ==
    /\ up
    /\ task[t] = "new"
    /\ finisher = "none"
    /\ task' = [task EXCEPT ![t] = "running"]
    /\ UNCHANGED <<groupErr, finisher, done, errChan, receiver, up>>

\* errgroup keeps the first error
Succeed(t) ==
    /\ up
    /\ task[t] = "running"
    /\ task' = [task EXCEPT ![t] = "succeeded"]
    /\ UNCHANGED <<groupErr, finisher, done, errChan, receiver, up>>

Fail(t) ==
    /\ up
    /\ task[t] = "running"
    /\ task' = [task EXCEPT ![t] = "failed"]
    /\ groupErr' = IF groupErr = NoErr THEN t ELSE groupErr
    /\ UNCHANGED <<finisher, done, errChan, receiver, up>>

\* faulty: Notify drops the channel of Finish
NoReceiver == "none"
Receiver == "receiving"

\* Finish makes the channel and starts its goroutine; Notify starts the receiver
Finish ==
    /\ up
    /\ finisher = "none"
    /\ finisher' = "waiting"
    /\ errChan' = "open"
    /\ receiver' = Receiver
    /\ UNCHANGED <<task, groupErr, done, up>>

\* faulty: the goroutine of Finish does not wait for the group
NotWaiting == TRUE
AllReturned == Running = {}
\* faulty: the error of Wait is dropped
AfterWaitWithoutErr == "closing"
AfterWait == IF groupErr = NoErr THEN "closing" ELSE "sending"

\* s.eg.Wait() returns; without an error the send is skipped
WaitReturns ==
    /\ up
    /\ finisher = "waiting"
    /\ AllReturned
    /\ finisher' = AfterWait
    /\ UNCHANGED <<task, groupErr, done, errChan, receiver, up>>

\* errChan <- err needs a receiver
SendErr ==
    /\ up
    /\ finisher = "sending"
    /\ receiver = "receiving"
    /\ finisher' = "closing"
    /\ receiver' = "panicking"
    /\ UNCHANGED <<task, groupErr, done, errChan, up>>

CloseDone ==
    /\ up
    /\ finisher = "closing"
    /\ done' = TRUE
    /\ finisher' = "closeErrs"
    /\ UNCHANGED <<task, groupErr, errChan, receiver, up>>

CloseErrs ==
    /\ up
    /\ finisher = "closeErrs"
    /\ errChan' = "closed"
    /\ finisher' = "ended"
    /\ UNCHANGED <<task, groupErr, done, receiver, up>>

\* a receive from the closed channel yields nil
ReceiveNil ==
    /\ up
    /\ receiver = "receiving"
    /\ errChan = "closed"
    /\ receiver' = "ended"
    /\ UNCHANGED <<task, groupErr, finisher, done, errChan, up>>

\* panic(err) in a goroutine ends the process
ReceiverPanics ==
    /\ up
    /\ receiver = "panicking"
    /\ receiver' = "ended"
    /\ up' = FALSE
    /\ UNCHANGED <<task, groupErr, finisher, done, errChan>>

Goroutines ==
    \/ WaitReturns \/ SendErr \/ CloseDone \/ CloseErrs
    \/ ReceiveNil \/ ReceiverPanics

Next ==
    \/ \E t \in Tasks : AddProcess(t) \/ Succeed(t) \/ Fail(t)
    \/ Finish
    \/ Goroutines

Spec == Init /\ [][Next]_vars

(* Every goroutine is scheduled, and every startup function returns. *)
FairSpec ==
    /\ Spec
    /\ WF_vars(WaitReturns) /\ WF_vars(SendErr) /\ WF_vars(CloseDone)
    /\ WF_vars(CloseErrs) /\ WF_vars(ReceiveNil) /\ WF_vars(ReceiverPanics)
    /\ \A t \in Tasks : WF_vars(Succeed(t) \/ Fail(t))

-----------------------------------------------------------------------------
(* Properties. *)

\* Every variable keeps the type of what it stands for.
TypeOK ==
    /\ task \in [Tasks -> {"new", "running", "succeeded", "failed"}]
    /\ groupErr \in Tasks \cup {NoErr}
    /\ finisher \in {"none", "waiting", "sending", "closing", "closeErrs", "ended"}
    /\ done \in BOOLEAN
    /\ errChan \in {"none", "open", "closed"}
    /\ receiver \in {"none", "receiving", "panicking", "ended"}
    /\ up \in BOOLEAN

\* IsFinished: the ready endpoint answers 200 only after every process that
\* was added has returned, and only after a failure reached the receiver.
ReadyIsLast ==
    done => /\ Running = {}
            /\ groupErr # NoErr => receiver \in {"panicking", "ended"}

\* Finish comes to an end: the module becomes ready or the process dies.
StartupEnds == finisher = "waiting" ~> (done \/ ~up)

\* A failed process takes the server down: the error is not swallowed.
FailureIsFatal == (groupErr # NoErr /\ finisher # "none") ~> ~up

\* Startup keeps the promise of Readiness.
Promise == INSTANCE Readiness
    WITH pending <- Running, closed <- finisher # "none", ready <- done
Implements == Promise!Spec
=============================================================================
