-------------------------- MODULE PugEngine_proofs --------------------------
(* Proofs about PugEngine, for every value of its constants. *)
EXTENDS PugEngine, SequenceTheorems, FiniteSetTheorems, TLAPS

USE DEF Procs, Versions, Labels, LoadLabels, RenderLabels, Returned, NoTemplates

TypeInv == TypeOK /\ CallsOK

LEMMA InitTypeOK == Init => TypeInv
  <1> SUFFICES ASSUME Init PROVE TypeInv
    OBVIOUS
  <1> USE DEF Init
  <1>1. slots \in 0 .. Limit /\ edits \in Versions
    BY LimitType, BoundsType
  <1>2. disk \in [Names -> [kind : Kinds, ver : Versions]]
    BY BoundsType
  <1>3. rest \in [Procs -> Seq(Names)]
    OBVIOUS
  <1> QED
    BY <1>1, <1>2, <1>3, BoundsType DEF TypeInv, TypeOK, CallsOK

LEMMA RestUpdate ==
    ASSUME NEW f \in [Procs -> Seq(Names)], NEW p \in Procs, NEW s \in Seq(Names)
    PROVE  [f EXCEPT ![p] = s] \in [Procs -> Seq(Names)]
  OBVIOUS

LEMMA NextTypeOK == TypeInv /\ [Next]_vars => TypeInv'
  <1> SUFFICES ASSUME TypeInv, [Next]_vars PROVE TypeInv'
    OBVIOUS
  <1> USE LimitType, BoundsType, ProcsDisjoint, AllIsNoName DEF TypeInv, TypeOK, CallsOK
  <1> USE DEF diskVars, lockVars, storeVars, callVars, loadVars, At, Goto, Return
  <1>1. ASSUME NEW p \in Procs, NEW n \in Names \cup {All}, NEW s \in Seq(Names),
               NEW l \in {"limit", "lock"}, Begin(p, l, n, s),
               p \in Requests => n \in Names, p \in Preloads => n = All,
               l = "limit" => p \in Requests
        PROVE  TypeInv'
    BY <1>1 DEF Begin
  <1>0. <<>> \in Seq(Names)
    OBVIOUS
  <1>2. ASSUME NEW p \in Procs, Call(p)
        PROVE  TypeInv'
    <2>1. CASE Render(p)
      <3>1. PICK n \in Names, k \in 0 .. MaxPartials : \E s \in [1 .. k -> Names] : Begin(p, "limit", n, s)
        BY <2>1 DEF Render
      <3>2. PICK s \in [1 .. k -> Names] : Begin(p, "limit", n, s)
        BY <3>1
      <3>3. s \in Seq(Names)
        BY <3>2
      <3>4. p \in Requests /\ p \notin Preloads
        BY <2>1 DEF Render
      <3> QED
        BY <1>1, <3>2, <3>3, <3>4
    <2>2. CASE Preload(p)
      BY <1>0, <1>1, <2>2 DEF Preload
    <2>3. CASE DebugGet(p)
      <3>1. PICK n \in Names \cup {All} : Begin(p, "lock", n, <<>>)
        BY <2>3 DEF DebugGet
      <3>2. p \notin Requests /\ p \notin Preloads
        BY <2>3 DEF DebugGet
      <3> QED
        BY <1>0, <1>1, <3>1, <3>2
    <2> QED
      BY <1>2, <2>1, <2>2, <2>3 DEF Call
  <1>3. ASSUME NEW p \in Procs, RenderStep(p)
        PROVE  TypeInv'
    <2>1. CASE TakeSlot(p)
      BY <2>1 DEF TakeSlot, SlotFree
    <2>2. CASE CheckLoaded(p)
      BY <2>2 DEF CheckLoaded
    <2>3. CASE RLockTemplates(p)
      BY <2>3 DEF RLockTemplates, RLock
    <2>4. CASE Lookup(p)
      <3> USE <2>4 DEF Lookup, RUnlock
      <3>1. p \in Requests /\ tpl[p] \in Names
        OBVIOUS
      <3>2. templates[tpl[p]] \in Versions \cup {Nil}
        BY <3>1
      <3>3. got' \in [Procs -> Versions \cup {Nil}]
        BY <3>2
      <3>4. CASE templates[tpl[p]] = Nil
        <4>1. CallsOK'
          BY <3>1, <3>4
        <4>2. pc' \in [Procs -> Labels]
          <5>1. pc' = [pc EXCEPT ![p] = "release"]
            BY <3>4
          <5>2. pc \in [Procs -> Labels] /\ "release" \in Labels
            OBVIOUS
          <5> QED
            BY <5>1, <5>2, Zenon
        <4>3. ret' \in [Procs -> Returned]
          BY <3>4
        <4>4. readers' \subseteq Procs
          BY <3>4
        <4> QED
          BY <3>3, <4>1, <4>2, <4>3, <4>4
      <3>5. CASE templates[tpl[p]] # Nil
        <4>1. CallsOK'
          BY <3>1, <3>5
        <4>2. pc' \in [Procs -> Labels]
          <5>1. pc' = [pc EXCEPT ![p] = "exec"]
            BY <3>5
          <5>2. pc \in [Procs -> Labels] /\ "exec" \in Labels
            OBVIOUS
          <5> QED
            BY <5>1, <5>2, Zenon
        <4>3. ret' \in [Procs -> Returned]
          BY <3>5
        <4>4. readers' \subseteq Procs
          BY <3>5
        <4> QED
          BY <3>3, <4>1, <4>2, <4>3, <4>4
      <3> QED
        BY <3>4, <3>5
    <2>5. CASE Execute(p)
      BY <2>5 DEF Execute
    <2>6. CASE CallAsset(p)
      BY <2>6 DEF CallAsset
    <2>7. CASE RLockAsset(p)
      BY <2>7 DEF RLockAsset, RLock
    <2>8. CASE ReadAsset(p)
      BY <2>8 DEF ReadAsset, RUnlock
    <2>9. CASE ReleaseSlot(p)
      <3> USE <2>9 DEF ReleaseSlot
      <3>1. p \in Requests /\ slots' \in 0 .. Limit
        OBVIOUS
      <3>2. CASE ret[p] = "ok" /\ rest[p] # <<>>
        <4>1. rest[p] \in Seq(Names) /\ rest[p] # <<>>
          BY <3>2
        <4>2. Head(rest[p]) \in Names /\ Tail(rest[p]) \in Seq(Names)
          BY <4>1
        <4>3. tpl' \in [Procs -> Names \cup {All}]
          <5>1. tpl' = [tpl EXCEPT ![p] = Head(rest[p])]
            BY <3>2
          <5>2. ASSUME NEW n \in Names PROVE [tpl EXCEPT ![p] = n] \in [Procs -> Names \cup {All}]
            OBVIOUS
          <5> QED
            BY <4>2, <5>1, <5>2
        <4>6. rest' = [rest EXCEPT ![p] = Tail(rest[p])]
          BY <3>2
        <4>7. rest' \in [Procs -> Seq(Names)]
          BY <4>2, <4>6, RestUpdate
        <4>4. CallsOK'
          BY <3>1, <3>2, <4>2
        <4>5. pc' \in [Procs -> Labels] /\ got' \in [Procs -> Versions \cup {Nil}]
          BY <3>2
        <4> QED
          BY <3>1, <4>3, <4>4, <4>5, <4>7
      <3>3. CASE ~(ret[p] = "ok" /\ rest[p] # <<>>)
        <4>1. <<>> \in Seq(Names)
          OBVIOUS
        <4>2. rest' \in [Procs -> Seq(Names)]
          <5>1. rest' = [rest EXCEPT ![p] = <<>>]
            BY <3>3
          <5> QED
            BY <4>1, <5>1, RestUpdate
        <4>3. CallsOK' /\ tpl' = tpl
          BY <3>1, <3>3
        <4>4. pc' \in [Procs -> Labels] /\ got' \in [Procs -> Versions \cup {Nil}]
          BY <3>3
        <4> QED
          BY <3>1, <4>2, <4>3, <4>4
      <3> QED
        BY <3>2, <3>3
    <2> QED
      BY <1>3, <2>1, <2>2, <2>3, <2>4, <2>5, <2>6, <2>7, <2>8, <2>9 DEF RenderStep
  <1>4. ASSUME NEW p \in Procs, LoadStep(p)
        PROVE  TypeInv'
    <2> USE DEF EndLoad, Unlock, BailOut, AfterLoad
    <2>1. CASE LockTemplates(p)
      BY <2>1 DEF LockTemplates, Announce
    <2>2. CASE StartLoad(p)
      BY <2>2 DEF StartLoad
    <2>3. CASE RefuseLoad(p)
      BY <2>3 DEF RefuseLoad
    <2>4. CASE OpenDir(p)
      BY <2>4 DEF OpenDir, Selected
    <2>5. CASE OpenDirFails(p)
      BY <2>5 DEF OpenDirFails
    <2>6. ASSUME NEW n \in Names, CompileFile(p, n)
          PROVE  TypeInv'
      BY <2>6 DEF CompileFile
    <2>7. ASSUME NEW n \in Names, ParseFails(p, n)
          PROVE  TypeInv'
      BY <2>7 DEF ParseFails
    <2>8. ASSUME NEW n \in Names, TemplateFails(p, n)
          PROVE  TypeInv'
      BY <2>8 DEF TemplateFails
    <2>9. ASSUME NEW n \in Names, CompilePanics(p, n)
          PROVE  TypeInv'
      BY <2>9 DEF CompilePanics, Unwind
    <2>10. CASE Publish(p)
      BY <2>10 DEF Publish
    <2>11. CASE LeaveLoad(p)
      BY <2>11, ZenonT(60) DEF LeaveLoad
    <2> QED
      BY <1>4, <2>1, <2>2, <2>3, <2>4, <2>5, <2>6, <2>7, <2>8, <2>9, <2>10, <2>11 DEF LoadStep
  <1>5. ASSUME NEW p \in Procs, ReadCode(p) \/ WaitFailed(p) \/ ConcurrentMapAccess(p)
        PROVE  TypeInv'
    <2>1. CASE ReadCode(p)
      BY <2>1 DEF ReadCode
    <2>2. CASE WaitFailed(p)
      BY <2>2 DEF WaitFailed
    <2>3. CASE ConcurrentMapAccess(p)
      BY <2>3 DEF ConcurrentMapAccess
    <2> QED
      BY <1>5, <2>1, <2>2, <2>3
  <1>6. ASSUME NEW n \in Names, EditFile(n)
        PROVE  TypeInv'
    BY <1>6 DEF EditFile
  <1>7. CASE MoveDir
    BY <1>7 DEF MoveDir
  <1>8. CASE Restart
    <2> USE <1>8 DEF Restart
    <2>1. rest' \in [Procs -> Seq(Names)]
      BY <1>0
    <2>2. slots' \in 0 .. Limit /\ since' \in [Procs -> [Names -> Versions]]
      OBVIOUS
    <2>3. CallsOK'
      OBVIOUS
    <2> QED
      BY <2>1, <2>2, <2>3
  <1>9. CASE UNCHANGED vars
    BY <1>9 DEF vars
  <1> QED
    BY <1>2, <1>3, <1>4, <1>5, <1>6, <1>7, <1>8, <1>9 DEF Next, Step, Environment

\* Every reachable state of the engine is well typed: in particular the
\* ratelimit channel is never over its capacity nor below zero.
THEOREM TypeCorrect == Spec => []TypeOK
  <1>1. TypeInv => TypeOK
    BY DEF TypeInv
  <1> QED
    BY <1>1, InitTypeOK, NextTypeOK, PTL DEF Spec

-----------------------------------------------------------------------------
(* The lock: its bookkeeping is inductive, so loads run alone. *)

LEMMA InitLockOK == Init => LockOK
  BY NobodyIsNoProc DEF Init, LockOK, Inside

LEMMA NextLockOK == TypeInv /\ LockOK /\ [Next]_vars => LockOK'
  <1> SUFFICES ASSUME TypeInv, LockOK, [Next]_vars PROVE LockOK'
    OBVIOUS
  <1>t. pc \in [Procs -> Labels] /\ readers \subseteq Procs /\ blocked \subseteq Procs
    BY DEF TypeInv, TypeOK
  <1> USE <1>t, NobodyIsNoProc DEF LockOK, Inside, At, Goto, lockVars
  <1>1. ASSUME NEW p \in Procs, Call(p)
        PROVE  LockOK'
    <2>1. \E l \in {"limit", "lock"} : pc[p] = "idle" /\ pc' = [pc EXCEPT ![p] = l]
      BY <1>1 DEF Call, Render, Preload, DebugGet, Begin
    <2>2. UNCHANGED lockVars
      BY <1>1 DEF Call, Render, Preload, DebugGet, Begin
    <2> QED
      BY <2>1, <2>2
  <1>2. ASSUME NEW p \in Procs, RenderStep(p)
        PROVE  LockOK'
    <2>1. CASE TakeSlot(p)
      BY <2>1 DEF TakeSlot, SlotFree
    <2>2. CASE CheckLoaded(p)
      BY <2>2 DEF CheckLoaded
    <2>3. CASE RLockTemplates(p)
      BY <2>3 DEF RLockTemplates, RLock
    <2>4. CASE Lookup(p)
      BY <2>4 DEF Lookup, RUnlock
    <2>5. CASE Execute(p)
      BY <2>5 DEF Execute
    <2>6. CASE CallAsset(p)
      BY <2>6 DEF CallAsset
    <2>7. CASE RLockAsset(p)
      BY <2>7 DEF RLockAsset, RLock
    <2>8. CASE ReadAsset(p)
      BY <2>8 DEF ReadAsset, RUnlock
    <2>9. CASE ReleaseSlot(p)
      BY <2>9 DEF ReleaseSlot
    <2> QED
      BY <1>2, <2>1, <2>2, <2>3, <2>4, <2>5, <2>6, <2>7, <2>8, <2>9 DEF RenderStep
  <1>3. ASSUME NEW p \in Procs, NEW l \in Labels \ (Inside \cup {"locked", "read", "assetRead"}),
               pc[p] \in Inside \cup {"locked"}, readers = {}, Unlock, Goto(p, l)
        PROVE  LockOK'
    BY <1>3 DEF Unlock
  <1>4. ASSUME NEW p \in Procs, LoadStep(p)
        PROVE  LockOK'
    <2> USE DEF EndLoad
    <2>0. ASSUME NEW err PROVE AfterLoad(p, err) \in {"release", "rlock", "code", "idle"}
      BY DEF AfterLoad
    <2>1. CASE LockTemplates(p)
      BY <2>1 DEF LockTemplates, Announce
    <2>2. CASE StartLoad(p)
      BY <2>2 DEF StartLoad, HasWriteLock
    <2>3. CASE RefuseLoad(p)
      BY <1>3, <2>0, <2>3 DEF RefuseLoad, HasWriteLock
    <2>4. CASE OpenDir(p)
      BY <2>4 DEF OpenDir
    <2>5. ASSUME pc[p] \in {"open", "compile"}, BailOut(p)
          PROVE  LockOK'
      BY <1>3, <2>0, <2>5 DEF BailOut
    <2>6. ASSUME NEW n \in Names, CompileFile(p, n)
          PROVE  LockOK'
      BY <2>6 DEF CompileFile
    <2>7. ASSUME NEW n \in Names, CompilePanics(p, n)
          PROVE  LockOK'
      <3>1. pc[p] = "compile" /\ Unlock
        BY <2>7 DEF CompilePanics, Unwind
      <3>2. \E l \in {"release", "idle"} : Goto(p, l)
        BY <2>7 DEF CompilePanics, Unwind
      <3> QED
        BY <1>3, <3>1, <3>2
    <2>8. CASE Publish(p)
      BY <2>8 DEF Publish
    <2>9. CASE LeaveLoad(p)
      BY <1>3, <2>0, <2>9 DEF LeaveLoad
    <2>10. ASSUME NEW n \in Names, ParseFails(p, n) \/ TemplateFails(p, n)
           PROVE  LockOK'
      BY <2>5, <2>10 DEF ParseFails, TemplateFails
    <2>11. CASE OpenDirFails(p)
      BY <2>5, <2>11 DEF OpenDirFails
    <2> QED
      BY <1>4, <2>1, <2>2, <2>3, <2>4, <2>6, <2>7, <2>8, <2>9, <2>10, <2>11 DEF LoadStep
  <1>5. ASSUME NEW p \in Procs, ReadCode(p) \/ WaitFailed(p) \/ ConcurrentMapAccess(p)
        PROVE  LockOK'
    BY <1>5 DEF ReadCode, WaitFailed, ConcurrentMapAccess
  <1>6. CASE (\E n \in Names : EditFile(n)) \/ MoveDir
    BY <1>6 DEF EditFile, MoveDir
  <1>7. CASE Restart
    BY <1>7 DEF Restart
  <1>8. CASE UNCHANGED vars
    BY <1>8 DEF vars
  <1> QED
    BY <1>1, <1>2, <1>4, <1>5, <1>6, <1>7, <1>8 DEF Next, Step, Environment

\* While LoadTemplates is past its CompareAndSwap nobody holds the read lock
\* and no other goroutine is in LoadTemplates, in debug mode and production,
\* whatever fails or panics.
THEOREM LoadsRunAlone == Spec => []LoadsAlone
  <1>1. TypeInv /\ LockOK => LoadsAlone
    BY DEF LockOK, LoadsAlone, Inside
  <1> QED
    BY <1>1, InitTypeOK, NextTypeOK, InitLockOK, NextLockOK, PTL DEF Spec

-----------------------------------------------------------------------------
(* The rate limit: the entries of the channel are the calls that own one.  *)

LEMMA OwnersFinite == IsFiniteSet(Owners) /\ IsFiniteSet(Owners')
  <1>1. Owners \subseteq Requests /\ Owners' \subseteq Requests
    BY DEF Owners
  <1> QED
    BY <1>1, ProcsFinite, FS_Subset

LEMMA InitSlots == Init => SlotsAccounted
  <1> SUFFICES ASSUME Init PROVE SlotsAccounted
    OBVIOUS
  <1>1. Owners = {}
    BY DEF Init, Owners
  <1> QED
    BY <1>1, FS_EmptySet DEF Init, SlotsAccounted

LEMMA NextSlots == TypeInv /\ SlotsAccounted /\ [Next]_vars => SlotsAccounted'
  <1> SUFFICES ASSUME TypeInv, SlotsAccounted, [Next]_vars PROVE SlotsAccounted'
    OBVIOUS
  <1>t. pc \in [Procs -> Labels] /\ slots \in 0 .. Limit /\ Cardinality(Owners) \in Nat
    BY OwnersFinite, FS_CardinalityType DEF TypeInv, TypeOK
  <1>c. CallsOK
    BY DEF TypeInv
  <1>1. ASSUME UNCHANGED slots, Owners' = Owners
        PROVE  SlotsAccounted'
    BY <1>1 DEF SlotsAccounted
  <1> DEFINE Keeps(p) == \E l \in Labels :
                /\ Goto(p, l)
                /\ p \in Requests =>
                      (pc[p] \in RenderLabels \cup LoadLabels <=> l \in RenderLabels \cup LoadLabels)
  <1>2. ASSUME NEW p \in Procs, UNCHANGED slots, Keeps(p)
        PROVE  SlotsAccounted'
    <2>1. Owners' = Owners
      BY <1>t, <1>2 DEF Owners, Goto
    <2> QED
      BY <1>1, <1>2, <2>1
  <1> HIDE DEF Keeps
  <1>3. ASSUME NEW p \in Procs, Call(p)
        PROVE  SlotsAccounted'
    <2>1. CASE Render(p)
      <3>1. pc[p] = "idle" /\ Goto(p, "limit") /\ UNCHANGED slots
        BY <2>1 DEF Render, Begin, At
      <3> QED
        BY <1>2, <3>1 DEF Keeps
    <2>2. CASE Preload(p) \/ DebugGet(p)
      <3>1. p \notin Requests /\ Goto(p, "lock") /\ UNCHANGED slots
        BY <2>2, ProcsDisjoint DEF Preload, DebugGet, Begin
      <3> QED
        BY <1>2, <3>1 DEF Keeps
    <2> QED
      BY <1>3, <2>1, <2>2 DEF Call
  <1>4. ASSUME NEW p \in Procs, TakeSlot(p)
        PROVE  SlotsAccounted'
    <2>1. p \in Requests /\ pc[p] = "limit" /\ pc' = [pc EXCEPT ![p] = "check"]
      BY <1>4, <1>c DEF TakeSlot, At, Goto, CallsOK
    <2>2. Owners' = Owners \cup {p} /\ p \notin Owners
      BY <1>t, <2>1 DEF Owners
    <2>3. Cardinality(Owners') = Cardinality(Owners) + 1
      BY <2>2, OwnersFinite, FS_AddElement
    <2> QED
      BY <1>4, <1>t, <2>3, LimitType DEF TakeSlot, SlotFree, SlotsAccounted
  <1>5. ASSUME NEW p \in Procs, ReleaseSlot(p)
        PROVE  SlotsAccounted'
    <2>1. p \in Requests /\ pc[p] = "release"
      BY <1>5, <1>c DEF ReleaseSlot, At, CallsOK
    <2>2. pc' = [pc EXCEPT ![p] = "limit"] \/ pc' = [pc EXCEPT ![p] = "idle"]
      BY <1>5 DEF ReleaseSlot, Goto
    <2>3. Owners' = Owners \ {p} /\ p \in Owners
      BY <1>t, <2>1, <2>2 DEF Owners
    <2>4. Cardinality(Owners') = Cardinality(Owners) - 1
      BY <2>3, OwnersFinite, FS_RemoveElement
    <2> QED
      BY <1>5, <1>t, <2>4, LimitType DEF ReleaseSlot, SlotsAccounted
  <1>6. ASSUME NEW p \in Procs, RenderStep(p)
        PROVE  SlotsAccounted'
    <2>1. CASE CheckLoaded(p)
      <3>1. pc[p] = "check" /\ (Goto(p, "lock") \/ Goto(p, "rlock")) /\ UNCHANGED slots
        BY <2>1 DEF CheckLoaded, At
      <3> QED
        BY <1>2, <3>1 DEF Keeps
    <2>2. CASE RLockTemplates(p) \/ RLockAsset(p) \/ ReadAsset(p)
      <3>1. \/ pc[p] = "rlock" /\ Goto(p, "read")
            \/ pc[p] = "assetLock" /\ Goto(p, "assetRead")
            \/ pc[p] = "assetRead" /\ Goto(p, "tail")
        BY <2>2 DEF RLockTemplates, RLockAsset, ReadAsset, At
      <3>2. UNCHANGED slots
        BY <2>2 DEF RLockTemplates, RLockAsset, ReadAsset
      <3> QED
        BY <1>2, <3>1, <3>2 DEF Keeps
    <2>3. CASE Lookup(p)
      <3>1. pc[p] = "read" /\ (Goto(p, "release") \/ Goto(p, "exec")) /\ UNCHANGED slots
        BY <2>3 DEF Lookup, At
      <3> QED
        BY <1>2, <3>1 DEF Keeps
    <2>4. CASE Execute(p)
      <3>1. pc[p] \in {"exec", "tail"} /\ Goto(p, "release") /\ UNCHANGED slots
        BY <2>4 DEF Execute, At
      <3> QED
        BY <1>2, <3>1 DEF Keeps
    <2>5. CASE CallAsset(p)
      <3>1. pc[p] = "exec" /\ (Goto(p, "tail") \/ Goto(p, "assetLock")) /\ UNCHANGED slots
        BY <2>5 DEF CallAsset, At
      <3> QED
        BY <1>2, <3>1 DEF Keeps
    <2> QED
      BY <1>4, <1>5, <1>6, <2>1, <2>2, <2>3, <2>4, <2>5 DEF RenderStep
  <1>7. ASSUME NEW p \in Procs, LoadStep(p)
        PROVE  SlotsAccounted'
    <2>1. ASSUME NEW err \in BOOLEAN, pc[p] \in LoadLabels, Goto(p, AfterLoad(p, err)), UNCHANGED slots
          PROVE  SlotsAccounted'
      <3>1. p \in Requests => AfterLoad(p, err) \in {"release", "rlock"}
        BY DEF AfterLoad
      <3>2. AfterLoad(p, err) \in Labels
        BY DEF AfterLoad
      <3> QED
        BY <1>2, <2>1, <3>1, <3>2 DEF Keeps
    <2>2. CASE LockTemplates(p) \/ StartLoad(p) \/ OpenDir(p) \/ Publish(p)
      <3>1. pc[p] \in LoadLabels /\ UNCHANGED slots
        BY <2>2 DEF LockTemplates, StartLoad, OpenDir, Publish, At
      <3>2. \E l \in LoadLabels : Goto(p, l)
        BY <2>2 DEF LockTemplates, StartLoad, OpenDir, Publish
      <3> QED
        BY <1>2, <3>1, <3>2 DEF Keeps
    <2>3. CASE RefuseLoad(p) \/ LeaveLoad(p)
      BY <2>1, <2>3 DEF RefuseLoad, LeaveLoad, At
    <2>4. CASE OpenDirFails(p)
      BY <2>1, <2>4 DEF OpenDirFails, BailOut, At
    <2>5. ASSUME NEW n \in Names, ParseFails(p, n) \/ TemplateFails(p, n)
          PROVE  SlotsAccounted'
      BY <2>1, <2>5 DEF ParseFails, TemplateFails, BailOut, At
    <2>6. ASSUME NEW n \in Names, CompileFile(p, n)
          PROVE  SlotsAccounted'
      <3>1. UNCHANGED <<pc, slots>>
        BY <2>6 DEF CompileFile
      <3> QED
        BY <1>1, <3>1 DEF Owners
    <2>7. ASSUME NEW n \in Names, CompilePanics(p, n)
          PROVE  SlotsAccounted'
      <3>1. pc[p] = "compile" /\ UNCHANGED slots
        BY <2>7 DEF CompilePanics, Unwind, At
      <3>2. Goto(p, "release") \/ (p \notin Requests /\ Goto(p, "idle"))
        BY <2>7 DEF CompilePanics, Unwind
      <3> QED
        BY <1>2, <3>1, <3>2 DEF Keeps
    <2> QED
      BY <1>7, <2>2, <2>3, <2>4, <2>5, <2>6, <2>7 DEF LoadStep
  <1>8. ASSUME NEW p \in Procs, ReadCode(p) \/ WaitFailed(p)
        PROVE  SlotsAccounted'
    <2>1. (pc[p] = "code" \/ pc[p] = "limit") /\ Goto(p, "idle") /\ UNCHANGED slots
      BY <1>8 DEF ReadCode, WaitFailed, At
    <2> QED
      BY <1>2, <2>1 DEF Keeps
  <1>9. CASE (\E n \in Names : EditFile(n)) \/ MoveDir \/ (\E p \in Procs : ConcurrentMapAccess(p)) \/ UNCHANGED vars
    <2>1. UNCHANGED <<pc, slots>>
      BY <1>9 DEF EditFile, MoveDir, ConcurrentMapAccess, vars
    <2> QED
      BY <1>1, <2>1 DEF Owners
  <1>10. CASE Restart
    <2>1. Owners' = {} /\ slots' = 0
      BY <1>10 DEF Restart, Owners
    <2> QED
      BY <2>1, FS_EmptySet DEF SlotsAccounted
  <1> QED
    BY <1>3, <1>6, <1>7, <1>8, <1>9, <1>10 DEF Next, Step, Environment

\* The ratelimit channel holds exactly one entry for each Render call between
\* the select and the deferred receive: no error path leaks a slot.
THEOREM SlotsNeverLeak == Spec => []SlotsAccounted
  BY InitTypeOK, NextTypeOK, InitSlots, NextSlots, PTL DEF Spec

-----------------------------------------------------------------------------
(* Production: without debug mode and without the debug route every load   *)
(* is a full load.                                                         *)

LEMMA FullLoads ==
    ASSUME Debug = FALSE, Debuggers = {}, TypeInv, NEW p \in Procs
    PROVE  Filter(p) = All
  BY DEF Filter, TypeInv, CallsOK

\* "make sure to fully load only once!" (engine.go): in production no second
\* load begins, and nothing touches the templates or the flag, once a load has
\* set it, until a restart.
THEOREM ProductionLoadsOnce ==
    ASSUME Debug = FALSE, Debuggers = {}
    PROVE  Spec => LoadsOnce
  <1> DEFINE Kept == NobodyLoads' /\ UNCHANGED <<templates, templatesLoaded>>
  <1>1. ASSUME TypeInv, [Next]_vars, alive, templatesLoaded = 1, NobodyLoads
        PROVE  Kept
    <2>0. pc \in [Procs -> Labels]
      BY <1>1 DEF TypeInv, TypeOK
    <2> DEFINE Elsewhere(p) == \E l \in Labels \ {"open", "compile"} : pc' = [pc EXCEPT ![p] = l]
    <2>1. ASSUME NEW p \in Procs, Elsewhere(p)
          PROVE  NobodyLoads'
      BY <1>1, <2>0, <2>1 DEF NobodyLoads
    <2>2. ASSUME NEW p \in Procs, LoadStep(p)
          PROVE  Kept
      <3>1. pc[p] \notin {"open", "compile"}
        BY <1>1 DEF NobodyLoads
      <3>2. Filter(p) = All
        BY <1>1, FullLoads
      <3>3. LockTemplates(p) \/ RefuseLoad(p) \/ LeaveLoad(p)
        BY <1>1, <2>2, <3>1, <3>2
           DEF LoadStep, StartLoad, MustNotReload, OpenDir, OpenDirFails, CompileFile,
               ParseFails, TemplateFails, CompilePanics, Publish, At
      <3>4. Elsewhere(p)
        BY <3>3 DEF LockTemplates, RefuseLoad, LeaveLoad, Goto, AfterLoad,
                    Labels, LoadLabels, RenderLabels
      <3> QED
        BY <2>1, <3>3, <3>4 DEF LockTemplates, RefuseLoad, LeaveLoad, storeVars
    <2>3. ASSUME NEW p \in Procs, RenderStep(p) \/ ReadCode(p) \/ WaitFailed(p)
          PROVE  Kept
      <3>1. Elsewhere(p)
        BY <2>3 DEF RenderStep, TakeSlot, CheckLoaded, RLockTemplates, Lookup, Execute,
                    CallAsset, RLockAsset, ReadAsset, ReleaseSlot, ReadCode, WaitFailed,
                    Goto, Labels, LoadLabels, RenderLabels
      <3> QED
        BY <2>1, <2>3, <3>1
           DEF RenderStep, TakeSlot, CheckLoaded, RLockTemplates, Lookup, Execute, CallAsset,
               RLockAsset, ReadAsset, ReleaseSlot, ReadCode, WaitFailed, storeVars
    <2>4. ASSUME NEW p \in Procs, Call(p)
          PROVE  Kept
      <3>1. Elsewhere(p)
        BY <2>4 DEF Call, Render, Preload, DebugGet, Begin, Goto, Labels, LoadLabels,
                    RenderLabels
      <3> QED
        BY <2>1, <2>4, <3>1 DEF Call, Render, Preload, DebugGet, Begin, storeVars
    <2>5. CASE UNCHANGED <<pc, storeVars>>
      BY <1>1, <2>5 DEF NobodyLoads, storeVars
    <2>6. CASE Environment
      BY <1>1, <2>3, <2>5, <2>6 DEF Environment, ConcurrentMapAccess, EditFile, MoveDir, Restart
    <2>7. CASE UNCHANGED vars
      BY <2>5, <2>7 DEF vars
    <2> QED
      BY <1>1, <2>2, <2>3, <2>4, <2>6, <2>7 DEF Next, Step
  <1>2. TypeInv /\ [Next]_vars =>
           [alive /\ templatesLoaded = 1 /\ NobodyLoads => Kept]_vars
    BY <1>1
  <1> QED
    BY <1>2, InitTypeOK, NextTypeOK, PTL DEF Spec, LoadsOnce

\* Loads are full loads, and the compiler does not panic.
Production == Debug = FALSE /\ Debuggers = {} /\ "panics" \notin Kinds

ProductionInv == TypeInv /\ LockOK /\ LoadOK /\ PublishedComplete

LEMMA InitProduction == Init => ProductionInv
  <1>1. Init => LoadOK /\ PublishedComplete
    BY DEF Init, LoadOK, PublishedComplete, Inside
  <1> QED
    BY <1>1, InitTypeOK, InitLockOK DEF ProductionInv

LEMMA NextProduction ==
    ASSUME Production, ProductionInv, [Next]_vars
    PROVE  LoadOK' /\ PublishedComplete'
  <1> DEFINE Goal == LoadOK' /\ PublishedComplete'
  <1>t. /\ TypeInv /\ LockOK
        /\ LockOK'
        /\ pc \in [Procs -> Labels]
        /\ disk \in [Names -> [kind : Kinds, ver : Versions]]
        /\ todo \in [Procs -> SUBSET Names]
        /\ result \in [Procs -> [Names -> Versions \cup {Nil}]]
        /\ templatesLoaded \in {0, 1}
        /\ Debug = FALSE /\ Debuggers = {} /\ "panics" \notin Kinds
    BY NextLockOK DEF Production, ProductionInv, TypeInv, TypeOK
  <1>i. LoadOK /\ PublishedComplete
    BY DEF ProductionInv
  <1>l. \A p, q \in Procs : p # q => ~(pc[p] \in Inside \cup {"locked"} /\ pc[q] \in Inside)
    BY <1>t DEF LockOK
  <1> USE DEF Inside
  \* a step that leaves the store alone and moves one goroutine elsewhere
  <1>1. ASSUME NEW p \in Procs, NEW l \in Labels \ {"open", "compile", "webpack"}, Goto(p, l),
               pc[p] \notin {"open", "compile"},
               UNCHANGED <<disk, templates, templatesLoaded>>,
               \A q \in Procs \ {p} : todo'[q] = todo[q] /\ result'[q] = result[q]
        PROVE  Goal
    <2>1. \A q \in Procs : pc'[q] \in {"open", "compile", "webpack"} => q # p /\ pc'[q] = pc[q]
      BY <1>1, <1>t DEF Goto
    <2>2. LoadOK'
      BY <1>1, <1>i, <2>1 DEF LoadOK, AlwaysGood
    <2>3. NobodyLoads' => NobodyLoads
      BY <1>1, <1>t DEF NobodyLoads, Goto
    <2> QED
      BY <1>1, <1>i, <2>2, <2>3 DEF PublishedComplete, AlwaysGood
  \* a load that fails puts the flag back
  <1>2. ASSUME NEW p \in Procs, pc[p] \in {"open", "compile"}, BailOut(p)
        PROVE  Goal
    <2>1. templatesLoaded' = 0 /\ UNCHANGED disk /\ \E l \in {"release", "rlock", "code", "idle"} : Goto(p, l)
      BY <1>2 DEF BailOut, diskVars, AfterLoad
    <2>2. \A q \in Procs : pc'[q] \notin Inside
      BY <1>2, <1>t, <1>l, <2>1 DEF Goto
    <2> QED
      BY <2>1, <2>2 DEF LoadOK, PublishedComplete
  <1>3. ASSUME NEW p \in Procs, Call(p) \/ RenderStep(p) \/ ReadCode(p) \/ WaitFailed(p)
        PROVE  Goal
    <2>1. UNCHANGED <<disk, templates, templatesLoaded, todo, result>>
      BY <1>3 DEF Call, Render, Preload, DebugGet, Begin, RenderStep, TakeSlot, CheckLoaded,
                  RLockTemplates, Lookup, Execute, CallAsset, RLockAsset, ReadAsset,
                  ReleaseSlot, ReadCode, WaitFailed, storeVars, diskVars, loadVars
    <2>2. \E l \in Labels \ {"open", "compile", "webpack"} : Goto(p, l)
      <3>1. CASE Call(p)
        BY <3>1 DEF Call, Render, Preload, DebugGet, Begin
      <3>2. CASE RenderStep(p)
        BY <3>2 DEF RenderStep, TakeSlot, CheckLoaded, RLockTemplates, Lookup, Execute,
                    CallAsset, RLockAsset, ReadAsset, ReleaseSlot
      <3>3. CASE ReadCode(p) \/ WaitFailed(p)
        BY <3>3 DEF ReadCode, WaitFailed
      <3> QED
        BY <1>3, <3>1, <3>2, <3>3
    <2>3. pc[p] \notin {"open", "compile"}
      BY <1>3 DEF Call, Render, Preload, DebugGet, Begin, RenderStep, TakeSlot, CheckLoaded,
                  RLockTemplates, Lookup, Execute, CallAsset, RLockAsset, ReadAsset,
                  ReleaseSlot, ReadCode, WaitFailed, At
    <2> QED
      BY <1>1, <2>1, <2>2, <2>3
  <1>4. ASSUME NEW p \in Procs, LoadStep(p)
        PROVE  Goal
    <2>1. CASE LockTemplates(p)
      <3>1. pc[p] = "lock" /\ Goto(p, "locked") /\ UNCHANGED <<disk, templates, templatesLoaded, todo, result>>
        BY <2>1 DEF LockTemplates, At, storeVars, diskVars, loadVars
      <3> QED
        BY <1>1, <3>1
    <2>2. CASE StartLoad(p)
      <3>1. pc[p] = "locked" /\ pc' = [pc EXCEPT ![p] = "open"] /\ templatesLoaded' = 1
            /\ UNCHANGED <<disk, todo, result>>
        BY <2>2 DEF StartLoad, At, Goto, diskVars, loadVars
      <3>2. LoadOK'
        BY <1>t, <1>i, <3>1 DEF LoadOK, AlwaysGood
      <3>3. ~NobodyLoads'
        BY <1>t, <3>1 DEF NobodyLoads
      <3> QED
        BY <3>2, <3>3 DEF PublishedComplete
    <2>3. CASE RefuseLoad(p) \/ LeaveLoad(p)
      <3>1. pc[p] \in {"locked", "webpack"} /\ UNCHANGED <<disk, templates, templatesLoaded>>
        BY <2>3 DEF RefuseLoad, LeaveLoad, At, storeVars, diskVars
      <3>2. todo' = [todo EXCEPT ![p] = {}] /\ result' = [result EXCEPT ![p] = NoTemplates]
        BY <2>3 DEF RefuseLoad, LeaveLoad, EndLoad
      <3>3. \E l \in {"release", "rlock", "code", "idle"} : Goto(p, l)
        BY <2>3 DEF RefuseLoad, LeaveLoad, AfterLoad
      <3>4. \A q \in Procs \ {p} : todo'[q] = todo[q] /\ result'[q] = result[q]
        BY <1>t, <3>2
      <3> QED
        BY <1>1, <3>1, <3>3, <3>4
    <2>4. CASE OpenDir(p)
      <3>1. pc[p] = "open" /\ pc' = [pc EXCEPT ![p] = "compile"]
            /\ UNCHANGED <<disk, result, templatesLoaded>>
        BY <2>4 DEF OpenDir, At, Goto, storeVars, diskVars
      <3>2. todo' = [todo EXCEPT ![p] = {n \in Names : disk[n].kind # "absent"}]
        BY <1>t, <2>4, FullLoads DEF OpenDir, Selected
      <3>3. LoadOK'
        BY <1>t, <1>i, <3>1, <3>2 DEF LoadOK, AlwaysGood
      <3>4. ~NobodyLoads'
        BY <1>t, <3>1 DEF NobodyLoads
      <3> QED
        BY <3>3, <3>4 DEF PublishedComplete
    <2>5. CASE OpenDirFails(p)
      BY <1>2, <2>5 DEF OpenDirFails, At
    <2>6. ASSUME NEW n \in Names, CompileFile(p, n)
          PROVE  Goal
      <3>1. pc[p] = "compile" /\ UNCHANGED <<pc, disk, templates, templatesLoaded>>
        BY <2>6 DEF CompileFile, At, diskVars
      <3>2. /\ todo' = [todo EXCEPT ![p] = todo[p] \ {n}]
            /\ result' = [result EXCEPT ![p] = [result[p] EXCEPT ![n] = disk[n].ver]]
        BY <2>6 DEF CompileFile
      <3>3. disk[n].ver # Nil
        BY <1>t, NilIsNew, BoundsType
      <3>4. ASSUME NEW q \in Procs, pc'[q] = "compile", NEW m \in Names, AlwaysGood(m)'
            PROVE  m \in todo'[q] \/ result'[q][m] # Nil
        <4>1. m \in todo[q] \/ result[q][m] # Nil
          BY <1>i, <3>1, <3>4 DEF LoadOK, AlwaysGood
        <4>2. CASE q = p /\ m = n
          BY <1>t, <3>2, <3>3, <4>2
        <4>3. CASE q # p \/ m # n
          BY <1>t, <3>2, <4>1, <4>3
        <4> QED
          BY <4>2, <4>3
      <3>5. LoadOK'
        BY <1>i, <3>1, <3>4 DEF LoadOK
      <3> QED
        BY <1>i, <3>1, <3>5 DEF PublishedComplete, NobodyLoads, AlwaysGood
    <2>7. ASSUME NEW n \in Names, ParseFails(p, n) \/ TemplateFails(p, n)
          PROVE  Goal
      BY <1>2, <2>7 DEF ParseFails, TemplateFails, At
    <2>8. ASSUME NEW n \in Names, CompilePanics(p, n)
          PROVE  Goal
      BY <1>t, <2>8 DEF CompilePanics
    <2>9. CASE Publish(p)
      <3>1. pc[p] = "compile" /\ pc' = [pc EXCEPT ![p] = "webpack"] /\ templates' = result[p]
            /\ todo[p] = {} /\ UNCHANGED <<disk, todo, result, templatesLoaded>>
        BY <2>9 DEF Publish, At, Goto, diskVars, loadVars
      <3>2. LoadOK'
        BY <1>t, <1>i, <3>1 DEF LoadOK, AlwaysGood
      <3>3. \A n \in Names : AlwaysGood(n) => templates'[n] # Nil
        BY <1>i, <3>1 DEF LoadOK
      <3> QED
        BY <3>1, <3>2, <3>3 DEF PublishedComplete, AlwaysGood
    <2> QED
      BY <1>4, <2>1, <2>2, <2>3, <2>4, <2>5, <2>6, <2>7, <2>8, <2>9 DEF LoadStep
  <1>5. ASSUME NEW n \in Names, EditFile(n)
        PROVE  Goal
    <2>1. UNCHANGED <<pc, templates, templatesLoaded, todo, result>>
      BY <1>5 DEF EditFile, storeVars, loadVars
    <2>2. PICK k \in Kinds : disk' = [disk EXCEPT ![n] = [kind |-> k, ver |-> edits + 1]]
      BY <1>5 DEF EditFile
    <2>3. edits \in Nat
      BY BoundsType DEF ProductionInv, TypeInv, TypeOK
    <2>4. \A m \in Names : AlwaysGood(m)' => AlwaysGood(m)
      BY <1>t, <2>2, <2>3 DEF AlwaysGood
    <2> QED
      BY <1>i, <2>1, <2>4 DEF LoadOK, PublishedComplete, NobodyLoads
  <1>6. CASE Restart
    BY <1>6 DEF Restart, LoadOK, PublishedComplete
  <1>7. CASE MoveDir \/ (\E p \in Procs : ConcurrentMapAccess(p)) \/ UNCHANGED vars
    <2>1. UNCHANGED <<disk, pc, templates, templatesLoaded, todo, result>>
      BY <1>7 DEF MoveDir, ConcurrentMapAccess, vars, diskVars, storeVars, loadVars
    <2> QED
      BY <1>i, <2>1 DEF LoadOK, PublishedComplete, NobodyLoads, AlwaysGood
  <1> QED
    BY <1>3, <1>4, <1>5, <1>6, <1>7 DEF Next, Step, Environment

LEMMA ProductionStep ==
    ASSUME Production
    PROVE  ProductionInv /\ [Next]_vars => ProductionInv'
  BY NextProduction, NextTypeOK, NextLockOK DEF ProductionInv

\* The end of the process is no step of the engine when something outside it
\* brings it down; it disturbs nothing the invariant is about.
LEMMA ProductionDies ==
    ASSUME ProductionInv, alive' \in BOOLEAN,
           UNCHANGED <<diskVars, slots, lockVars, storeVars, pc, callVars, loadVars, got, ret>>
    PROVE  ProductionInv'
  <1> USE DEF diskVars, lockVars, storeVars, callVars, loadVars
  <1>1. TypeInv' /\ LockOK'
    BY DEF ProductionInv, TypeInv, TypeOK, CallsOK, LockOK
  <1>2. LoadOK' /\ PublishedComplete'
    BY DEF ProductionInv, LoadOK, PublishedComplete, NobodyLoads, AlwaysGood
  <1> QED
    BY <1>1, <1>2 DEF ProductionInv

\* A step of a call moves that call, and only a call in progress steps.
LEMMA StepMoves ==
    ASSUME TypeInv, NEW p \in Procs, Step(p)
    PROVE  pc[p] # "idle" /\ \A q \in Procs \ {p} : pc'[q] = pc[q] /\ ret'[q] = ret[q]
  <1>1. pc \in [Procs -> Labels] /\ ret \in [Procs -> Returned]
    BY DEF TypeInv, TypeOK
  <1>2. CASE RenderStep(p) \/ ReadCode(p)
    BY <1>1, <1>2 DEF RenderStep, TakeSlot, CheckLoaded, RLockTemplates, Lookup, Execute,
              CallAsset, RLockAsset, ReadAsset, ReleaseSlot, ReadCode, At, Goto, Return
  <1>3. CASE LoadStep(p)
    BY <1>1, <1>3 DEF LoadStep, LockTemplates, StartLoad, RefuseLoad, OpenDir, OpenDirFails,
              CompileFile, ParseFails, TemplateFails, CompilePanics, BailOut, Publish,
              LeaveLoad, At, Goto, Return, EndLoad
  <1> QED
    BY <1>2, <1>3 DEF Step

\* Once everything is loaded nobody loads again.
LEMMA LoadedStays ==
    ASSUME Production, TypeInv, templatesLoaded = 1, NobodyLoads, [Next]_vars, ~Restart
    PROVE  templatesLoaded' = 1 /\ NobodyLoads'
  <1>t. pc \in [Procs -> Labels] /\ \A p \in Procs : Filter(p) = All
    BY FullLoads DEF TypeInv, TypeOK, Production
  <1> USE <1>t
  <1>1. ASSUME NEW p \in Procs, NEW l \in Labels \ {"open", "compile"}, Goto(p, l),
               UNCHANGED templatesLoaded
        PROVE  templatesLoaded' = 1 /\ NobodyLoads'
    BY <1>1 DEF NobodyLoads, Goto
  <1>2. ASSUME NEW p \in Procs, Call(p) \/ RenderStep(p) \/ ReadCode(p) \/ WaitFailed(p)
        PROVE  templatesLoaded' = 1 /\ NobodyLoads'
    <2>1. UNCHANGED templatesLoaded
      BY <1>2 DEF Call, Render, Preload, DebugGet, Begin, RenderStep, TakeSlot, CheckLoaded,
                  RLockTemplates, Lookup, Execute, CallAsset, RLockAsset, ReadAsset,
                  ReleaseSlot, ReadCode, WaitFailed, storeVars
    <2>2. \E l \in Labels \ {"open", "compile"} : Goto(p, l)
      BY <1>2 DEF Call, Render, Preload, DebugGet, Begin, RenderStep, TakeSlot, CheckLoaded,
                  RLockTemplates, Lookup, Execute, CallAsset, RLockAsset, ReadAsset,
                  ReleaseSlot, ReadCode, WaitFailed
    <2> QED
      BY <1>1, <2>1, <2>2
  <1>3. ASSUME NEW p \in Procs, LoadStep(p)
        PROVE  templatesLoaded' = 1 /\ NobodyLoads'
    <2>1. ~StartLoad(p)
      BY DEF StartLoad, MustNotReload
    <2>2. pc[p] \notin {"open", "compile"}
      BY DEF NobodyLoads
    <2>3. LockTemplates(p) \/ RefuseLoad(p) \/ LeaveLoad(p)
      BY <1>3, <2>1, <2>2 DEF LoadStep, OpenDir, OpenDirFails, CompileFile, ParseFails,
                              TemplateFails, CompilePanics, Publish, At
    <2>4. UNCHANGED templatesLoaded /\ \E l \in Labels \ {"open", "compile"} : Goto(p, l)
      BY <2>3 DEF LockTemplates, RefuseLoad, LeaveLoad, AfterLoad, storeVars
    <2> QED
      BY <1>1, <2>4
  <1>4. CASE (\E n \in Names : EditFile(n)) \/ MoveDir \/ (\E p \in Procs : ConcurrentMapAccess(p))
             \/ UNCHANGED vars
    BY <1>4 DEF EditFile, MoveDir, ConcurrentMapAccess, vars, storeVars, NobodyLoads
  <1> QED
    BY <1>2, <1>3, <1>4 DEF Next, Step, Environment

\* A preload that ends without an error leaves everything loaded.
LEMMA PreloadEndsLoaded ==
    ASSUME Production, ProductionInv, NEW p \in Preloads, Step(p), pc'[p] = "idle", ret'[p] = "loaded"
    PROVE  templatesLoaded' = 1 /\ NobodyLoads'
  <1>t. /\ TypeInv /\ LockOK /\ LoadOK
        /\ pc \in [Procs -> Labels] /\ p \in Procs /\ p \notin Requests
        /\ ret \in [Procs -> Returned]
        /\ templatesLoaded \in {0, 1}
    BY ProcsDisjoint DEF ProductionInv, TypeInv, TypeOK, Procs
  <1> USE <1>t
  <1>1. LoadStep(p)
    <2>1. pc[p] \notin RenderLabels \cup {"limit", "code"}
      BY DEF TypeInv, CallsOK
    <2>2. ~RenderStep(p) /\ ~ReadCode(p)
      BY <2>1 DEF RenderStep, TakeSlot, CheckLoaded, RLockTemplates, Lookup, Execute,
                  CallAsset, RLockAsset, ReadAsset, ReleaseSlot, ReadCode, At
    <2> QED
      BY <2>2 DEF Step
  <1>2. ASSUME NEW r, EndLoad(p, r)
        PROVE  r = "loaded"
    BY <1>2 DEF EndLoad, Return
  <1>3. LeaveLoad(p)
    <2>1. ~(LockTemplates(p) \/ StartLoad(p) \/ OpenDir(p) \/ Publish(p))
      BY DEF LockTemplates, StartLoad, OpenDir, Publish, Goto
    <2>2. \A n \in Names : ~CompileFile(p, n)
      BY DEF CompileFile, At
    <2>3. ~BailOut(p) /\ ~RefuseLoad(p)
      BY <1>2 DEF BailOut, RefuseLoad
    <2>4. \A n \in Names : ~CompilePanics(p, n)
      BY <1>2 DEF CompilePanics
    <2> QED
      BY <1>1, <2>1, <2>2, <2>3, <2>4 DEF LoadStep, OpenDirFails, ParseFails, TemplateFails
  <1>4. pc[p] \in Inside /\ pc' = [pc EXCEPT ![p] = "idle"]
        /\ templatesLoaded = 1 /\ UNCHANGED templatesLoaded
    BY <1>3 DEF LeaveLoad, At, Goto, LoadOK, Inside
  <1> QED
    BY <1>4 DEF NobodyLoads, LockOK, Inside

\* Readme, "all templates are loaded at once": in production, as long as no
\* file makes the compiler panic, the flag is set without a load under way
\* only when every good file has its template, whichever loads failed before.
THEOREM ProductionComplete ==
    ASSUME Production
    PROVE  Spec => []PublishedComplete
  <1>1. ProductionInv /\ [Next]_vars => ProductionInv'
    BY ProductionStep
  <1>2. ProductionInv => PublishedComplete
    BY DEF ProductionInv
  <1> QED
    BY <1>1, <1>2, InitProduction, PTL DEF Spec

-----------------------------------------------------------------------------
(* Production, with a template directory no load can fail on: its files    *)
(* compile, and either none is missing or nobody changes them.             *)

Healthy ==
    /\ Debug = FALSE /\ Debuggers = {} /\ DirMoves = FALSE
    /\ \/ Kinds \subseteq {"good", "dangling"}
       \/ Kinds \subseteq {"good", "dangling", "absent"} /\ MaxEdits = 0

\* Every file that is still to be compiled compiles.
NoLoadFails ==
    /\ dirOk
    /\ \A p \in Procs : pc[p] = "compile" => \A n \in todo[p] : Compiles(n)

\* A Render that goes to the lookup knows that a load has begun.
LookupOK == \A p \in Requests : pc[p] \in {"rlock", "read"} => templatesLoaded = 1

HealthyInv == ProductionInv /\ NoLoadFails /\ LookupOK

LEMMA InitHealthy == Init => HealthyInv
  <1>1. Init => NoLoadFails /\ LookupOK
    BY DEF Init, NoLoadFails, LookupOK
  <1> QED
    BY <1>1, InitProduction DEF HealthyInv

LEMMA NothingFails ==
    ASSUME Healthy, HealthyInv, NEW p \in Procs
    PROVE  /\ ~OpenDirFails(p)
           /\ \A n \in Names : ~ParseFails(p, n) /\ ~TemplateFails(p, n) /\ ~CompilePanics(p, n)
  BY DEF HealthyInv, NoLoadFails, OpenDirFails, ParseFails, TemplateFails, CompilePanics,
         At, Healthy, Compiles

LEMMA NextHealthy ==
    ASSUME Healthy, HealthyInv, [Next]_vars
    PROVE  NoLoadFails' /\ LookupOK'
  <1> DEFINE Goal == NoLoadFails' /\ LookupOK'
  <1>t. /\ TypeInv /\ LockOK /\ LoadOK /\ NoLoadFails /\ LookupOK
        /\ pc \in [Procs -> Labels]
        /\ disk \in [Names -> [kind : Kinds, ver : Versions]]
        /\ todo \in [Procs -> SUBSET Names]
        /\ templatesLoaded \in {0, 1}
        /\ edits \in Versions
    BY DEF HealthyInv, ProductionInv, TypeInv, TypeOK
  <1> USE <1>t DEF Inside, Compiles
  <1>n. \A n \in Names : disk[n].kind # "absent" => Compiles(n)
    BY DEF Healthy
  \* a step that leaves the files and the flag alone
  <1>1. ASSUME NEW p \in Procs, NEW l \in Labels \ {"compile"}, Goto(p, l),
               UNCHANGED <<disk, dirOk>>,
               templatesLoaded' = templatesLoaded \/ templatesLoaded' = 1,
               p \in Requests /\ l \in {"rlock", "read"} => templatesLoaded = 1,
               \A q \in Procs \ {p} : todo'[q] = todo[q]
        PROVE  Goal
    <2>1. \A q \in Procs : pc'[q] = "compile" => q # p /\ pc[q] = "compile"
      BY <1>1 DEF Goto
    <2>2. NoLoadFails'
      BY <1>1, <2>1 DEF NoLoadFails
    <2>3. ASSUME NEW q \in Requests, pc'[q] \in {"rlock", "read"}
          PROVE  templatesLoaded' = 1
      BY <1>1, <2>3 DEF LookupOK, Goto
    <2> QED
      BY <2>2, <2>3 DEF LookupOK
  <1>2. ASSUME NEW p \in Procs, Call(p) \/ RenderStep(p) \/ ReadCode(p) \/ WaitFailed(p)
        PROVE  Goal
    <2>1. UNCHANGED <<disk, dirOk, templatesLoaded, todo>>
      BY <1>2 DEF Call, Render, Preload, DebugGet, Begin, RenderStep, TakeSlot, CheckLoaded,
                  RLockTemplates, Lookup, Execute, CallAsset, RLockAsset, ReadAsset,
                  ReleaseSlot, ReadCode, WaitFailed, storeVars, diskVars, loadVars
    <2>2. \E l \in Labels \ {"compile", "rlock", "read"} : Goto(p, l)
          \/ CheckLoaded(p) \/ RLockTemplates(p)
      BY <1>2 DEF Call, Render, Preload, DebugGet, Begin, RenderStep, TakeSlot,
                  Lookup, Execute, CallAsset, RLockAsset, ReadAsset,
                  ReleaseSlot, ReadCode, WaitFailed
    <2>3. CASE CheckLoaded(p)
      <3>1. \E l \in {"lock", "rlock"} : Goto(p, l) /\ (l = "rlock" => templatesLoaded = 1)
        BY <2>3 DEF CheckLoaded, NeedsLoad, Healthy
      <3> QED
        BY <1>1, <2>1, <3>1
    <2>4. CASE RLockTemplates(p)
      <3>1. pc[p] = "rlock" /\ Goto(p, "read")
        BY <2>4 DEF RLockTemplates, At
      <3> QED
        BY <1>1, <2>1, <3>1 DEF LookupOK
    <2> QED
      BY <1>1, <2>1, <2>2, <2>3, <2>4
  <1>3. ASSUME NEW p \in Procs, LoadStep(p)
        PROVE  Goal
    <2>1. CASE LockTemplates(p) \/ StartLoad(p) \/ Publish(p)
      <3>1. /\ \E l \in {"locked", "open", "webpack"} : Goto(p, l)
            /\ UNCHANGED <<disk, dirOk, todo>>
            /\ templatesLoaded' = templatesLoaded \/ templatesLoaded' = 1
        BY <2>1 DEF LockTemplates, StartLoad, Publish, storeVars, diskVars, loadVars
      <3> QED
        BY <1>1, <3>1
    <2>2. CASE RefuseLoad(p) \/ LeaveLoad(p)
      <3>1. /\ UNCHANGED <<disk, dirOk, templatesLoaded>>
            /\ todo' = [todo EXCEPT ![p] = {}]
        BY <2>2 DEF RefuseLoad, LeaveLoad, EndLoad, storeVars, diskVars
      <3>2. \E l \in {"release", "rlock", "code", "idle"} :
               Goto(p, l) /\ (l = "rlock" => templatesLoaded = 1)
        BY <2>2 DEF RefuseLoad, LeaveLoad, AfterLoad, At, LoadOK
      <3> QED
        BY <1>1, <3>1, <3>2
    <2>3. CASE OpenDir(p)
      <3>1. /\ pc' = [pc EXCEPT ![p] = "compile"]
            /\ todo' = [todo EXCEPT ![p] = {n \in Selected(Filter(p)) : disk[n].kind # "absent"}]
            /\ UNCHANGED <<disk, dirOk, templatesLoaded>>
        BY <2>3 DEF OpenDir, Goto, storeVars, diskVars
      <3>2. \A n \in todo'[p] : n \in Names /\ disk[n].kind # "absent"
        BY <3>1 DEF Selected
      <3>3. NoLoadFails'
        BY <1>n, <3>1, <3>2 DEF NoLoadFails
      <3>4. LookupOK'
        BY <3>1 DEF LookupOK
      <3> QED
        BY <3>3, <3>4
    <2>4. ASSUME NEW n \in Names, CompileFile(p, n)
          PROVE  Goal
      <3>1. /\ todo' = [todo EXCEPT ![p] = todo[p] \ {n}]
            /\ UNCHANGED <<pc, disk, dirOk, templatesLoaded>>
        BY <2>4 DEF CompileFile, diskVars
      <3> QED
        BY <3>1 DEF NoLoadFails, LookupOK
    <2> QED
      BY <1>3, NothingFails, <2>1, <2>2, <2>3, <2>4 DEF LoadStep
  <1>4. ASSUME NEW n \in Names, EditFile(n)
        PROVE  Goal
    <2>1. UNCHANGED <<pc, dirOk, templatesLoaded, todo>>
      BY <1>4 DEF EditFile, storeVars, loadVars
    <2>2. PICK k \in Kinds : disk' = [disk EXCEPT ![n] = [kind |-> k, ver |-> edits + 1]]
      BY <1>4 DEF EditFile
    <2>3. k \in {"good", "dangling"}
      BY <1>4, BoundsType DEF EditFile, Healthy
    <2>4. \A m \in Names : Compiles(m) => Compiles(m)'
      BY <2>2, <2>3 DEF Healthy
    <2> QED
      BY <2>1, <2>4 DEF NoLoadFails, LookupOK
  <1>5. CASE Restart
    BY <1>5 DEF Restart, NoLoadFails, LookupOK, diskVars
  <1>6. CASE MoveDir \/ (\E p \in Procs : ConcurrentMapAccess(p)) \/ UNCHANGED vars
    <2>1. UNCHANGED <<disk, dirOk, pc, templatesLoaded, todo>>
      BY <1>6 DEF MoveDir, ConcurrentMapAccess, vars, diskVars, storeVars, loadVars, Healthy
    <2> QED
      BY <2>1 DEF NoLoadFails, LookupOK
  <1> QED
    BY <1>2, <1>3, <1>4, <1>5, <1>6 DEF Next, Step, Environment

LEMMA HealthyStep ==
    ASSUME Healthy
    PROVE  HealthyInv /\ [Next]_vars => HealthyInv'
  <1>1. Production
    BY DEF Healthy, Production
  <1> QED
    BY <1>1, NextHealthy, ProductionStep DEF HealthyInv

\* engine.go, "make sure template loading has finished by now!": in production,
\* over files that can be loaded, a Render that has the read lock finds every
\* good template, although it read the flag before it waited for the lock.
THEOREM ProductionLoaded ==
    ASSUME Healthy
    PROVE  Spec => []LoadedAtLookup
  <1>1. HealthyInv /\ [Next]_vars => HealthyInv'
    BY HealthyStep
  <1>2. HealthyInv => LoadedAtLookup
    <2> SUFFICES ASSUME HealthyInv, NEW p \in Requests, pc[p] = "read", p \in readers
                 PROVE  \A n \in Names : AlwaysGood(n) => templates[n] # Nil
      BY DEF LoadedAtLookup
    <2>1. NobodyLoads
      BY DEF HealthyInv, ProductionInv, LockOK, NobodyLoads, Inside
    <2>2. templatesLoaded = 1
      BY DEF HealthyInv, LookupOK
    <2> QED
      BY <2>1, <2>2 DEF HealthyInv, ProductionInv, PublishedComplete
  <1> QED
    BY <1>1, <1>2, InitHealthy, PTL DEF Spec

-----------------------------------------------------------------------------
(* Debug mode: each Render loads what it executes.                         *)

\* Versions only grow, and a call began in the past.
AgesOK == \A n \in Names : disk[n].ver <= edits /\ \A p \in Procs : since[p][n] <= disk[n].ver

\* Only a load under way has results.
ResultsOK == \A q \in Procs : pc[q] \notin {"compile", "webpack"} => result[q] = NoTemplates

\* What the map f holds is as new as the files were when the call p began.
Fresh(f, p) == \A n \in Names : f[n] # Nil => f[n] >= since[p][n]

\* From its own load up to its lookup a Render can only meet templates, and
\* results that may replace them, that are new enough for it.
FreshOK ==
    \A p \in Requests :
        /\ pc[p] \in {"rlock", "read"} =>
              Fresh(templates, p) /\ \A q \in Procs : Fresh(result[q], p)
        /\ pc[p] \in {"compile", "webpack"} => Fresh(result[p], p)
        /\ pc[p] = "webpack" => Fresh(templates, p)

FreshInv == TypeInv /\ LockOK /\ AgesOK /\ ResultsOK /\ FreshOK /\ ServesFresh

Serving == {"exec", "assetLock", "assetRead", "tail"}

LEMMA InitFresh == Init => FreshInv
  <1>1. Init => AgesOK /\ ResultsOK /\ FreshOK /\ ServesFresh
    BY BoundsType DEF Init, AgesOK, ResultsOK, FreshOK, ServesFresh, Fresh
  <1> QED
    BY <1>1, InitTypeOK, InitLockOK DEF FreshInv

LEMMA NextFresh ==
    ASSUME Debug = TRUE, FreshInv, [Next]_vars
    PROVE  AgesOK' /\ ResultsOK' /\ FreshOK' /\ ServesFresh'
  <1> DEFINE Goal == AgesOK' /\ ResultsOK' /\ FreshOK' /\ ServesFresh'
  <1>t. /\ pc \in [Procs -> Labels]
        /\ disk \in [Names -> [kind : Kinds, ver : Versions]]
        /\ edits \in Versions /\ Versions \subseteq Nat
        /\ templates \in [Names -> Versions \cup {Nil}]
        /\ result \in [Procs -> [Names -> Versions \cup {Nil}]]
        /\ since \in [Procs -> [Names -> Versions]]
        /\ got \in [Procs -> Versions \cup {Nil}]
        /\ tpl \in [Procs -> Names \cup {All}]
        /\ Nil \notin Nat
    BY NilIsNew, BoundsType DEF FreshInv, TypeInv, TypeOK
  <1>i. AgesOK /\ ResultsOK /\ FreshOK /\ ServesFresh /\ LockOK /\ CallsOK
    BY DEF FreshInv, TypeInv
  <1> USE <1>t
  <1>e. \A p \in Procs : Fresh(NoTemplates, p) /\ Fresh(NoTemplates, p)'
    BY DEF Fresh
  \* steps of p that touch neither the files nor the maps
  <1>1. ASSUME NEW p \in Procs, NEW l \in Labels \ ({"compile", "webpack", "rlock"} \cup Serving),
               Goto(p, l), pc[p] \notin {"compile", "webpack"},
               l = "read" => pc[p] = "rlock",
               UNCHANGED <<disk, edits, templates, result>>,
               \A q \in Procs \ {p} : UNCHANGED <<tpl[q], got[q], since[q]>>,
               \A n \in Names : since'[p][n] <= disk[n].ver,
               l = "read" => UNCHANGED since[p]
        PROVE  Goal
    <2>0. /\ \A q \in Procs \ {p} : pc'[q] = pc[q]
          /\ pc'[p] = l
      BY <1>1 DEF Goto
    <2>1. AgesOK'
      <3> SUFFICES ASSUME NEW n \in Names, NEW q \in Procs
                   PROVE  disk'[n].ver <= edits' /\ since'[q][n] <= disk'[n].ver
        BY DEF AgesOK
      <3> QED
        BY <1>1, <1>i DEF AgesOK
    <2>2. ResultsOK'
      BY <1>1, <1>i, <2>0 DEF ResultsOK
    <2>3. FreshOK'
      BY <1>1, <1>i, <2>0 DEF FreshOK, Fresh
    <2>4. ServesFresh'
      BY <1>1, <1>i, <2>0 DEF ServesFresh, Serving
    <2> QED
      BY <2>1, <2>2, <2>3, <2>4
  \* a load ends without its templates: the map is empty or as it was
  <1>2. ASSUME NEW p \in Procs, NEW l \in Labels \ ({"compile", "webpack", "rlock", "read"} \cup Serving),
               Goto(p, l), pc[p] \notin {"rlock", "read"} \cup Serving,
               templates' = templates \/ templates' = NoTemplates,
               result' = [result EXCEPT ![p] = NoTemplates],
               UNCHANGED <<disk, edits, tpl, got, since>>
        PROVE  Goal
    <2>0. /\ \A q \in Procs \ {p} : pc'[q] = pc[q] /\ result'[q] = result[q]
          /\ pc'[p] = l /\ result'[p] = NoTemplates
      BY <1>2 DEF Goto
    <2>1. AgesOK'
      BY <1>2, <1>i DEF AgesOK
    <2>2. ResultsOK'
      BY <1>2, <1>i, <2>0 DEF ResultsOK
    <2>3. FreshOK'
      <3> SUFFICES ASSUME NEW q \in Requests, q # p
                   PROVE  /\ pc[q] \in {"rlock", "read"} =>
                                Fresh(templates, q)' /\ \A r \in Procs : Fresh(result[r], q)'
                          /\ pc[q] \in {"compile", "webpack"} => Fresh(result[q], q)'
                          /\ pc[q] = "webpack" => Fresh(templates, q)'
        BY <2>0 DEF FreshOK
      <3>1. Fresh(templates, q) => Fresh(templates, q)'
        BY <1>2 DEF Fresh
      <3>2. \A r \in Procs : Fresh(result[r], q) => Fresh(result[r], q)'
        BY <1>2, <2>0 DEF Fresh
      <3> QED
        BY <1>i, <3>1, <3>2 DEF FreshOK
    <2>4. ServesFresh'
      BY <1>2, <1>i, <2>0 DEF ServesFresh, Serving
    <2> QED
      BY <2>1, <2>2, <2>3, <2>4
  \* a Render executes what it found
  <1>3. ASSUME NEW p \in Procs, NEW l \in Serving, Goto(p, l), pc[p] \in Serving,
               UNCHANGED <<disk, edits, templates, result, tpl, got, since>>
        PROVE  Goal
    <2>0. /\ \A q \in Procs \ {p} : pc'[q] = pc[q]
          /\ pc'[p] = l
      BY <1>3 DEF Goto
    <2>1. AgesOK' /\ ResultsOK'
      BY <1>3, <1>i, <2>0 DEF AgesOK, ResultsOK, Serving
    <2>3. FreshOK'
      BY <1>3, <1>i, <2>0 DEF FreshOK, Fresh, Serving
    <2>4. ServesFresh'
      BY <1>3, <1>i, <2>0 DEF ServesFresh, Serving
    <2> QED
      BY <2>1, <2>3, <2>4
  <1>4. ASSUME NEW p \in Procs, NEW l \in {"limit", "lock"}, NEW n, NEW s, Begin(p, l, n, s)
        PROVE  Goal
    <2>1. /\ Goto(p, l) /\ pc[p] = "idle"
          /\ UNCHANGED <<disk, edits, templates, result, got>>
          /\ tpl' = [tpl EXCEPT ![p] = n]
          /\ since' = [since EXCEPT ![p] = [m \in Names |-> disk[m].ver]]
      BY <1>4 DEF Begin, At, diskVars, storeVars, loadVars
    <2>2. \A m \in Names : since'[p][m] <= disk[m].ver
      BY <2>1
    <2>3. \A q \in Procs \ {p} : UNCHANGED <<tpl[q], got[q], since[q]>>
      BY <2>1
    <2> QED
      BY <1>1, <2>1, <2>2, <2>3 DEF Serving
  <1>5. ASSUME NEW p \in Procs, Call(p)
        PROVE  Goal
    BY <1>4, <1>5 DEF Call, Render, Preload, DebugGet
  <1>6. ASSUME NEW p \in Procs, RenderStep(p)
        PROVE  Goal
    <2>a. AgesOK => \A n \in Names : since[p][n] <= disk[n].ver
      BY DEF AgesOK
    <2>1. CASE TakeSlot(p) \/ CheckLoaded(p) \/ RLockTemplates(p)
      <3>1. /\ UNCHANGED <<disk, edits, templates, result, tpl, got, since>>
            /\ \/ pc[p] = "limit" /\ Goto(p, "check")
               \/ pc[p] = "check" /\ Goto(p, "lock")
               \/ pc[p] = "rlock" /\ Goto(p, "read")
        BY <2>1 DEF TakeSlot, CheckLoaded, NeedsLoad, RLockTemplates, At,
                    diskVars, storeVars, loadVars, callVars
      <3> QED
        BY <1>1, <1>i, <2>a, <3>1 DEF Serving
    <2>2. CASE Lookup(p)
      <3>0. p \in Requests
        BY <1>i, <2>2 DEF Lookup, At, CallsOK
      <3>1. /\ pc[p] = "read"
            /\ UNCHANGED <<disk, edits, templates, result, tpl, since>>
            /\ got' = [got EXCEPT ![p] = templates[tpl[p]]]
        BY <2>2 DEF Lookup, At, diskVars, storeVars, loadVars, callVars
      <3>2. CASE templates[tpl[p]] = Nil
        <4>1. Goto(p, "release")
          BY <2>2, <3>2 DEF Lookup
        <4> QED
          BY <1>1, <1>i, <2>a, <3>1, <4>1 DEF Serving
      <3>3. CASE templates[tpl[p]] # Nil
        <4>1. pc' = [pc EXCEPT ![p] = "exec"]
          BY <2>2, <3>3 DEF Lookup, Goto
        <4>2. AgesOK' /\ ResultsOK'
          BY <1>i, <3>1, <4>1 DEF AgesOK, ResultsOK
        <4>3. FreshOK'
          BY <1>i, <3>1, <4>1 DEF FreshOK, Fresh
        <4>4. tpl[p] \in Names
          BY <1>i, <3>0, <3>1 DEF CallsOK
        <4>5. templates[tpl[p]] \in Nat /\ templates[tpl[p]] >= since[p][tpl[p]]
          BY <1>i, <3>0, <3>1, <3>3, <4>4 DEF FreshOK, Fresh
        <4>6. ServesFresh'
          BY <1>i, <3>1, <4>1, <4>5 DEF ServesFresh
        <4> QED
          BY <4>2, <4>3, <4>6
      <3> QED
        BY <3>2, <3>3
    <2>3. CASE Execute(p) \/ ReleaseSlot(p)
      <3>1. /\ pc[p] \in {"exec", "tail", "release"}
            /\ \E l \in {"release", "limit", "idle"} : Goto(p, l)
            /\ UNCHANGED <<disk, edits, templates, result, since>>
            /\ tpl' = tpl \/ \E x : tpl' = [tpl EXCEPT ![p] = x]
            /\ got' = got \/ \E x : got' = [got EXCEPT ![p] = x]
        BY <2>3 DEF Execute, ReleaseSlot, At, diskVars, storeVars, loadVars, callVars
      <3> QED
        BY <1>1, <1>i, <2>a, <3>1 DEF Serving
    <2>4. CASE CallAsset(p) \/ RLockAsset(p) \/ ReadAsset(p)
      <3>1. /\ pc[p] \in Serving
            /\ \E l \in Serving : Goto(p, l)
            /\ UNCHANGED <<disk, edits, templates, result, tpl, got, since>>
        BY <2>4 DEF CallAsset, RLockAsset, ReadAsset, At, Serving,
                    diskVars, storeVars, loadVars, callVars
      <3> QED
        BY <1>3, <3>1
    <2> QED
      BY <1>6, <2>1, <2>2, <2>3, <2>4 DEF RenderStep
  <1>7. ASSUME NEW p \in Procs, pc[p] \in {"open", "compile"}, BailOut(p)
        PROVE  Goal
    <2>1. /\ \E l \in {"release", "code", "idle"} : Goto(p, l)
          /\ templates' = NoTemplates /\ result' = [result EXCEPT ![p] = NoTemplates]
          /\ UNCHANGED <<disk, edits, tpl, got, since>>
      BY <1>7 DEF BailOut, EndLoad, AfterLoad, diskVars, callVars
    <2> QED
      BY <1>2, <1>7, <2>1 DEF Serving
  <1>8. ASSUME NEW p \in Procs, LoadStep(p)
        PROVE  Goal
    <2>a. AgesOK => \A n \in Names : since[p][n] <= disk[n].ver
      BY DEF AgesOK
    <2>1. CASE LockTemplates(p) \/ StartLoad(p)
      <3>1. /\ UNCHANGED <<disk, edits, templates, result, tpl, got, since>>
            /\ \/ pc[p] = "lock" /\ Goto(p, "locked")
               \/ pc[p] = "locked" /\ Goto(p, "open")
        BY <2>1 DEF LockTemplates, StartLoad, At, diskVars, storeVars, loadVars, callVars
      <3> QED
        BY <1>1, <1>i, <2>a, <3>1 DEF Serving
    <2>2. CASE RefuseLoad(p)
      <3>1. /\ pc[p] = "locked" /\ \E l \in {"release", "code", "idle"} : Goto(p, l)
            /\ result' = [result EXCEPT ![p] = NoTemplates]
            /\ UNCHANGED <<disk, edits, templates, tpl, got, since>>
        BY <2>2 DEF RefuseLoad, EndLoad, AfterLoad, At, diskVars, storeVars, callVars
      <3> QED
        BY <1>2, <3>1 DEF Serving
    <2>3. CASE OpenDir(p)
      <3>1. /\ pc[p] = "open" /\ pc' = [pc EXCEPT ![p] = "compile"]
            /\ UNCHANGED <<disk, edits, templates, result, tpl, got, since>>
        BY <2>3 DEF OpenDir, Goto, At, diskVars, storeVars, callVars
      <3>2. AgesOK' /\ ResultsOK' /\ ServesFresh'
        BY <1>i, <3>1 DEF AgesOK, ResultsOK, ServesFresh
      <3>3. result[p] = NoTemplates
        BY <1>i, <3>1 DEF ResultsOK
      <3>4. FreshOK'
        BY <1>i, <3>1, <3>3 DEF FreshOK, Fresh
      <3> QED
        BY <3>2, <3>4
    <2>4. CASE OpenDirFails(p)
      BY <1>7, <2>4 DEF OpenDirFails, At
    <2>5. ASSUME NEW n \in Names, CompileFile(p, n)
          PROVE  Goal
      <3>1. /\ pc[p] = "compile"
            /\ result' = [result EXCEPT ![p] = [result[p] EXCEPT ![n] = disk[n].ver]]
            /\ UNCHANGED <<pc, disk, edits, templates, tpl, got, since>>
        BY <2>5 DEF CompileFile, At, diskVars, callVars
      <3>2. AgesOK' /\ ResultsOK' /\ ServesFresh'
        BY <1>i, <3>1 DEF AgesOK, ResultsOK, ServesFresh
      <3>3. ASSUME NEW r \in Procs, NEW q \in Procs, Fresh(result[q], r)
            PROVE  Fresh(result[q], r)'
        <4> SUFFICES ASSUME NEW m \in Names, result'[q][m] # Nil
                     PROVE  result'[q][m] >= since[r][m]
          BY <3>1 DEF Fresh
        <4>1. CASE q = p /\ m = n
          BY <1>i, <3>1, <4>1 DEF AgesOK
        <4>2. CASE ~(q = p /\ m = n)
          BY <3>1, <3>3, <4>2 DEF Fresh
        <4> QED
          BY <4>1, <4>2
      <3>4. \A r \in Procs : Fresh(templates, r) => Fresh(templates, r)'
        BY <3>1 DEF Fresh
      <3>5. FreshOK'
        BY <1>i, <3>1, <3>3, <3>4 DEF FreshOK
      <3> QED
        BY <3>2, <3>5
    <2>6. ASSUME NEW n \in Names, ParseFails(p, n) \/ TemplateFails(p, n)
          PROVE  Goal
      BY <1>7, <2>6 DEF ParseFails, TemplateFails, At
    <2>7. ASSUME NEW n \in Names, CompilePanics(p, n)
          PROVE  Goal
      <3>1. /\ pc[p] = "compile" /\ \E l \in {"release", "idle"} : Goto(p, l)
            /\ result' = [result EXCEPT ![p] = NoTemplates]
            /\ UNCHANGED <<disk, edits, templates, tpl, got, since>>
        BY <2>7 DEF CompilePanics, Unwind, EndLoad, At, diskVars, storeVars, callVars
      <3> QED
        BY <1>2, <3>1 DEF Serving
    <2>8. CASE Publish(p)
      <3>1. /\ pc[p] = "compile" /\ pc' = [pc EXCEPT ![p] = "webpack"]
            /\ templates' = result[p]
            /\ UNCHANGED <<disk, edits, result, tpl, got, since>>
        BY <2>8 DEF Publish, Goto, At, diskVars, loadVars, callVars
      <3>2. AgesOK' /\ ResultsOK' /\ ServesFresh'
        BY <1>i, <3>1 DEF AgesOK, ResultsOK, ServesFresh
      <3>3. \A r \in Procs : Fresh(result[p], r) => Fresh(templates, r)'
        BY <3>1 DEF Fresh
      <3>4. \A q \in Procs \ {p} : pc[q] # "webpack"
        BY <1>i, <3>1 DEF LockOK, Inside
      <3>5. \A r \in Procs, q \in Procs : Fresh(result[q], r) => Fresh(result[q], r)'
        BY <3>1 DEF Fresh
      <3>6. FreshOK'
        BY <1>i, <3>1, <3>3, <3>4, <3>5 DEF FreshOK
      <3> QED
        BY <3>2, <3>6
    <2>9. CASE LeaveLoad(p)
      <3>1. /\ pc[p] = "webpack"
            /\ result' = [result EXCEPT ![p] = NoTemplates]
            /\ UNCHANGED <<disk, edits, templates, tpl, got, since>>
            /\ p \in Requests => pc' = [pc EXCEPT ![p] = "rlock"]
            /\ \E l \in {"rlock", "code", "idle"} : Goto(p, l) /\ (p \notin Requests => l # "rlock")
        BY <2>9 DEF LeaveLoad, EndLoad, AfterLoad, At, Goto, diskVars, storeVars, callVars
      <3>2. CASE p \notin Requests
        BY <1>2, <3>1, <3>2 DEF Serving
      <3>3. CASE p \in Requests
        <4>1. \A q \in Procs : result'[q] = NoTemplates
          <5>1. \A q \in Procs \ {p} : pc[q] \notin {"compile", "webpack"}
            BY <1>i, <3>1 DEF LockOK, Inside
          <5> QED
            BY <1>i, <3>1, <5>1 DEF ResultsOK
        <4>2. AgesOK' /\ ResultsOK' /\ ServesFresh'
          BY <1>i, <3>1, <3>3, <4>1 DEF AgesOK, ResultsOK, ServesFresh
        <4>3. \A r \in Procs, q \in Procs : Fresh(result[q], r)'
          BY <4>1 DEF Fresh
        <4>4. \A r \in Procs : Fresh(templates, r) => Fresh(templates, r)'
          BY <3>1 DEF Fresh
        <4>5. FreshOK'
          BY <1>i, <3>1, <3>3, <4>3, <4>4 DEF FreshOK
        <4> QED
          BY <4>2, <4>5
      <3> QED
        BY <3>2, <3>3
    <2> QED
      BY <1>8, <2>1, <2>2, <2>3, <2>4, <2>5, <2>6, <2>7, <2>8, <2>9 DEF LoadStep
  <1>9. ASSUME NEW p \in Procs, ReadCode(p) \/ WaitFailed(p)
        PROVE  Goal
    <2>1. /\ pc[p] \in {"code", "limit"} /\ Goto(p, "idle")
          /\ UNCHANGED <<disk, edits, templates, result, tpl, got, since>>
      BY <1>9 DEF ReadCode, WaitFailed, At, diskVars, storeVars, loadVars, callVars
    <2>2. \A n \in Names : since[p][n] <= disk[n].ver
      BY <1>i DEF AgesOK
    <2> QED
      BY <1>1, <2>1, <2>2 DEF Serving
  <1>10. ASSUME NEW n \in Names, EditFile(n)
         PROVE  Goal
    <2>1. /\ UNCHANGED <<pc, templates, result, tpl, got, since>>
          /\ edits' = edits + 1
      BY <1>10 DEF EditFile, storeVars, loadVars, callVars
    <2>2. PICK k \in Kinds : disk' = [disk EXCEPT ![n] = [kind |-> k, ver |-> edits + 1]]
      BY <1>10 DEF EditFile
    <2>3. AgesOK'
      <3> SUFFICES ASSUME NEW m \in Names
                   PROVE  disk'[m].ver <= edits' /\ \A q \in Procs : since'[q][m] <= disk'[m].ver
        BY DEF AgesOK
      <3>1. /\ disk[m].ver <= edits /\ \A q \in Procs : since[q][m] <= disk[m].ver
            /\ disk[m].ver \in Nat /\ edits \in Nat /\ \A q \in Procs : since[q][m] \in Nat
        BY <1>i DEF AgesOK
      <3>2. CASE m = n
        BY <2>1, <2>2, <3>1, <3>2
      <3>3. CASE m # n
        BY <2>1, <2>2, <3>1, <3>3
      <3> QED
        BY <3>2, <3>3
    <2>4. ResultsOK' /\ FreshOK' /\ ServesFresh'
      BY <1>i, <2>1 DEF ResultsOK, FreshOK, Fresh, ServesFresh
    <2> QED
      BY <2>3, <2>4
  <1>11. CASE Restart
    <2>1. /\ UNCHANGED <<disk, edits>>
          /\ pc' = [p \in Procs |-> "idle"]
          /\ result' = [p \in Procs |-> NoTemplates]
          /\ since' = [p \in Procs |-> [n \in Names |-> 0]]
      BY <1>11 DEF Restart, diskVars
    <2>2. AgesOK'
      BY <1>i, <2>1 DEF AgesOK
    <2>3. ResultsOK' /\ FreshOK' /\ ServesFresh'
      BY <2>1 DEF ResultsOK, FreshOK, ServesFresh
    <2> QED
      BY <2>2, <2>3
  <1>12. CASE MoveDir \/ (\E p \in Procs : ConcurrentMapAccess(p)) \/ UNCHANGED vars
    <2>1. /\ UNCHANGED <<disk, pc, templates, result, tpl, got, since>>
          /\ edits' = edits \/ edits' = edits + 1
      BY <1>12 DEF MoveDir, ConcurrentMapAccess, vars, diskVars, storeVars, loadVars, callVars
    <2> QED
      BY <1>i, <2>1 DEF AgesOK, ResultsOK, FreshOK, Fresh, ServesFresh
  <1> QED
    BY <1>5, <1>6, <1>8, <1>9, <1>10, <1>11, <1>12 DEF Next, Step, Environment

\* Readme, debug mode loads on each render: what a Render executes is at least
\* as new as its file was when the call began, although any number of other
\* loads may replace the templates between its own load and its lookup.
THEOREM DebugServesFresh ==
    ASSUME Debug = TRUE
    PROVE  Spec => []ServesFresh
  <1>1. FreshInv /\ [Next]_vars => FreshInv'
    BY NextFresh, NextTypeOK, NextLockOK DEF FreshInv
  <1>2. FreshInv => ServesFresh
    BY DEF FreshInv
  <1> QED
    BY <1>1, <1>2, InitFresh, PTL DEF Spec
=============================================================================
