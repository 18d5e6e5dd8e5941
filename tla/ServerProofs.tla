---------------------------- MODULE ServerProofs ----------------------------
(***************************************************************************)
(* The interface process of Ccu implements ServerContract, keeps its       *)
(* clients in touch with its devices and its paramsets sound, whatever the *)
(* rest of the CCU does; and the whole CCU keeps its types.                *)
(***************************************************************************)
EXTENDS CcuProofs, FiniteSetTheorems

-----------------------------------------------------------------------------
(* What json makes of the paramsets                                        *)

JsonOf(v) == IF v.type = "int" THEN [v EXCEPT !.type = "real"] ELSE v

\* What came from json once comes back as it is.
LEMMA JsonOnce ==
  ASSUME NEW v
  PROVE  JsonOf(JsonOf(v)) = JsonOf(v)
<1>1. CASE v.type # "int"
  BY <1>1 DEF JsonOf
<1>2. CASE v.type = "int"
  <2> DEFINE w == [v EXCEPT !.type = "real"]
  <2>1. w.type = "int" => [w EXCEPT !.type = "real"] = w
    OBVIOUS
  <2> HIDE DEF w
  <2>2. JsonOf(v) = w
    BY <1>2 DEF JsonOf, w
  <2> QED
    BY <2>1, <2>2 DEF JsonOf
<1> QED
  BY <1>1, <1>2

LEMMA JsonTwice ==
  ASSUME NEW all
  PROVE  AsJson(AsJson(all)) = AsJson(all)
<1>1. \A x : AsJson(x) = [key \in DOMAIN x |-> [p \in DOMAIN x[key] |-> JsonOf(x[key][p])]]
  BY DEF AsJson, JsonOf
<1> DEFINE once == [key \in DOMAIN all |-> [p \in DOMAIN all[key] |-> JsonOf(all[key][p])]]
           twice == [key \in DOMAIN once |-> [p \in DOMAIN once[key] |-> JsonOf(once[key][p])]]
<1>2. \A key \in DOMAIN all : twice[key] = once[key]
  BY JsonOnce
<1>3. twice = once
  BY <1>2
<1> QED
  BY <1>1, <1>3

LEMMA JsonOfNothing == AsJson(<<>>) = <<>>
BY DEF AsJson

-----------------------------------------------------------------------------
(* The invariant                                                           *)

\* The form of a record of a stop.
IsStop(r) == DOMAIN r = {"stage", "port", "regs", "paramsets"}

StopsOK ==
  /\ stops = [k \in Stops |-> stops[k]]
  /\ \A k \in Stops : IsStop(stops[k])

Writing == \E k \in Stops : stops[k].stage = "write"
Saved == \E k \in Stops : stops[k].stage \in {"shutdown", "drain"}

\* Until every stop is through they have the stores since the first was asked
\* for on record, and each writes one of them: what stays when the last one is
\* done with the file is one of them too, unless a write failed.
ServerInv ==
  /\ StopsOK
  /\ suspended => running
  /\ AsJson(overrides) \in since
  /\ ~Stopping => since = {AsJson(overrides)} /\ spoiled = FALSE
  /\ \A x \in since : AsJson(x) = x
  /\ file = Torn \/ AsJson(file) = file
  /\ \A k \in Stops : stops[k].stage = "write" => stops[k].paramsets \in since
  /\ Saved => file \in since \/ spoiled = TRUE \/ Writing

Implements == [Contract!CNext]_(Contract!cvars)

\* A step that only tells the history of a new store, or changes nothing.
LEMMA WriteOrStutter ==
  ASSUME ServerInv,
         UNCHANGED <<running, suspended, stops, file, spoiled>>,
         Tracked \/ UNCHANGED <<overrides, since>>
  PROVE  ServerInv' /\ Implements
<1>1. phase' = phase /\ Stopping' = Stopping /\ Writing' = Writing /\ Saved' = Saved
  BY DEF phase, Stopping, Writing, Saved
<1>2. CASE UNCHANGED <<overrides, since>>
  BY <1>1, <1>2 DEF StopsOK, ServerInv, Implements, Contract!cvars
<1>3. CASE Tracked
  <2>1. since' = (IF Stopping THEN since ELSE {}) \cup {AsJson(overrides')}
    BY <1>1, <1>3 DEF Tracked
  <2>2. ServerInv'
    <3>1. ~Stopping => ~Saved /\ \A k \in Stops : stops[k].stage # "write"
      BY DEF Stopping, Saved
    <3> QED
      BY <1>1, <2>1, <3>1, JsonTwice DEF StopsOK, ServerInv
  <2>3. CASE AsJson(overrides') = AsJson(overrides)
    <3>1. since' = since
      BY <2>1, <2>3 DEF StopsOK, ServerInv
    <3> QED
      BY <1>1, <2>2, <2>3, <3>1 DEF Implements, Contract!cvars
  <2>4. CASE AsJson(overrides') # AsJson(overrides)
    BY <1>1, <2>1, <2>2, <2>4 DEF Implements, Contract!CNext, Contract!Write
  <2> QED
    BY <2>3, <2>4
<1> QED
  BY <1>2, <1>3

-----------------------------------------------------------------------------
(* The steps of the process                                                *)

\* What a stop keeps in its record.
LEMMA StopChanges ==
  ASSUME StopsOK, NEW k \in Stops, Stop(k) \/ StopStep(k)
  PROVE  /\ StopsOK'
         /\ \A j \in Stops : stops'[j].regs \in {stops[j].regs, registered, {}}
         /\ \A j \in Stops : stops'[j].paramsets \in {stops[j].paramsets, AsJson(overrides), <<>>}
<1> DEFINE Small(r) == /\ r.regs \in {stops[k].regs, registered, {}}
                       /\ r.paramsets \in {stops[k].paramsets, AsJson(overrides), <<>>}
           old == stops[k]
<1>1. PICK r : stops' = [stops EXCEPT ![k] = r] /\ IsStop(r) /\ Small(r)
  <2>1. CASE Stop(k) \/ StopReturn(k)
    BY <2>1 DEF Stop, StopReturn, NoStop, IsStop
  <2>2. CASE StopRelease(k) \/ StopRegs(k) \/ StopRegWrite(k)
    BY <2>2 DEF StopRelease, StopRegs, StopRegWrite, StopsOK, IsStop
  <2>3. CASE StopSave(k)
    <3> DEFINE r == [[old EXCEPT !.stage = "write"] EXCEPT !.paramsets = AsJson(overrides)]
    <3>1. stops' = [stops EXCEPT ![k] = r]
      BY <2>3 DEF StopSave, ToSave
    <3>2. IsStop(r) /\ Small(r)
      BY DEF StopsOK, IsStop
    <3> QED
      BY <3>1, <3>2
  <2>4. CASE StopWrite(k) \/ StopFails(k)
    <3> DEFINE none == <<>>
               r == [[old EXCEPT !.stage = "shutdown"] EXCEPT !.paramsets = none]
    <3>1. stops' = [stops EXCEPT ![k].stage = "shutdown", ![k].paramsets = none]
      BY <2>4 DEF StopWrite, StopFails
    <3>2. none \in {stops[k].paramsets, AsJson(overrides), <<>>}
      OBVIOUS
    <3> HIDE DEF none
    <3>3. stops' = [stops EXCEPT ![k] = r]
      BY <3>1
    <3>4. IsStop(r) /\ Small(r)
      BY <3>2 DEF StopsOK, IsStop
    <3> QED
      BY <3>3, <3>4
  <2>5. CASE StopShutdown(k)
    <3> DEFINE r == [[old EXCEPT !.stage = "drain"] EXCEPT !.port = FALSE]
    <3>1. stops' = [stops EXCEPT ![k] = r]
      BY <2>5 DEF StopShutdown, StopsOK
    <3>2. IsStop(r) /\ Small(r)
      BY DEF StopsOK, IsStop
    <3> QED
      BY <3>1, <3>2
  <2> QED
    BY <2>1, <2>2, <2>3, <2>4, <2>5 DEF StopStep
<1>2. \A j \in Stops : stops'[j] = IF j = k THEN r ELSE stops[j]
  BY <1>1 DEF StopsOK
<1> QED
  BY <1>1, <1>2 DEF StopsOK

\* What a stop writes to the files.
LEMMA StopWrites ==
  ASSUME NEW k \in Stops, Stop(k) \/ StopStep(k)
  PROVE  /\ fileRegs' \in {fileRegs, stops[k].regs, {}}
         /\ file' \in {file, Torn, stops[k].paramsets}
BY DEF Stop, StopStep, StopRelease, StopRegs, StopRegWrite, StopSave, StopWrite, StopFails,
   StopShutdown, StopReturn

\* What one call of Stop does leaves the others as they are.
OnlyStop(k) ==
  /\ IsStop(stops'[k])
  /\ \A j \in Stops : j # k => stops'[j] = stops[j]
  /\ stops' = [j \in Stops |-> stops'[j]]

\* The store stays while the process starts, suspends or resumes.
LEMMA LifeStep ==
  ASSUME ServerInv, Tracked, UNCHANGED overrides,
         \/ StartServer \/ Suspend
         \/ \E forget \in BOOLEAN : Resume(forget)
  PROVE  ServerInv' /\ Implements
<1>0. /\ UNCHANGED <<stops, file, spoiled>>
      /\ Stopping' = Stopping /\ Writing' = Writing /\ Saved' = Saved
  BY DEF StartServer, Suspend, Resume, Stopping, Writing, Saved
<1>1. since' = since
  BY <1>0 DEF Tracked, ServerInv
<1>2. (suspended => running)' => ServerInv'
  BY <1>0, <1>1 DEF StopsOK, ServerInv
<1>3. CASE StartServer
  <2>1. phase = "stopped" /\ phase' = "running" /\ (suspended => running)'
    BY <1>3 DEF StopsOK, ServerInv, StartServer, phase
  <2> QED
    BY <1>0, <1>1, <1>2, <2>1 DEF Implements, Contract!CNext, Contract!Start
<1>4. CASE Suspend
  <2>1. phase = "running" /\ phase' = "suspended" /\ (suspended => running)'
    BY <1>4 DEF StopsOK, ServerInv, Suspend, phase
  <2> QED
    BY <1>0, <1>1, <1>2, <2>1 DEF Implements, Contract!CNext, Contract!Suspend
<1>5. ASSUME NEW forget \in BOOLEAN, Resume(forget)
      PROVE  ServerInv' /\ Implements
  <2>1. UNCHANGED running /\ (suspended => running)'
    BY <1>5 DEF StopsOK, ServerInv, Resume
  <2>2. CASE TLSFree
    <3>1. phase = "suspended" /\ phase' = "running"
      BY <1>5, <2>2 DEF StopsOK, ServerInv, Resume, phase
    <3> QED
      BY <1>0, <1>1, <1>2, <2>1, <3>1 DEF Implements, Contract!CNext, Contract!Resume
  <2>3. CASE ~TLSFree
    BY <1>5, <1>0, <2>1, <2>3, WriteOrStutter DEF Resume
  <2> QED
    BY <2>2, <2>3
<1> QED
  BY <1>3, <1>4, <1>5

\* The first stop opens the record, another one leaves it open.
LEMMA AskStep ==
  ASSUME ServerInv, Tracked, UNCHANGED overrides, NEW k \in Stops, Stop(k)
  PROVE  ServerInv' /\ Implements
<1> DEFINE r == [NoStop EXCEPT !.stage = "release", !.port = plain]
<1>1. r.stage = "release" /\ IsStop(r)
  BY DEF NoStop, IsStop
<1>2. /\ stops' = [stops EXCEPT ![k] = r]
      /\ stops[k].stage = "no"
      /\ UNCHANGED <<file, spoiled>>
      /\ running /\ ~running' /\ ~suspended'
  BY DEF Stop
<1> HIDE DEF r
<1>3. OnlyStop(k) /\ stops'[k].stage = "release"
  BY <1>1, <1>2 DEF StopsOK, ServerInv, OnlyStop
<1>4. Stopping' /\ Writing' = Writing /\ Saved' = Saved
  BY <1>2, <1>3 DEF Stopping, Writing, Saved, OnlyStop
<1>5. since' = since
  BY <1>4 DEF Tracked, ServerInv
<1>6. ServerInv'
  BY <1>2, <1>3, <1>4, <1>5 DEF StopsOK, ServerInv, OnlyStop
<1>7. phase \in {"running", "suspended"} /\ phase' = "stopped"
  BY <1>2 DEF phase
<1> QED
  BY <1>2, <1>4, <1>5, <1>6, <1>7 DEF Implements, Contract!CNext, Contract!AskStop

\* What a stop does once the lock is released.
LEMMA StopKeepsContract ==
  ASSUME ServerInv, Tracked, UNCHANGED overrides, NEW k \in Stops, StopStep(k)
  PROVE  ServerInv' /\ Implements
<1>0. UNCHANGED <<running, suspended>> /\ phase' = phase
  <2>1. UNCHANGED restVars
    BY DEF StopStep, StopRelease, StopRegs, StopRegWrite, StopSave, StopWrite, StopFails,
       StopShutdown, StopReturn
  <2> QED
    BY <2>1 DEF restVars, phase
<1>1. OnlyStop(k)
  BY DEF StopsOK, ServerInv, OnlyStop, StopStep, StopRelease, StopRegs, StopRegWrite, StopSave, StopWrite,
     StopFails, StopShutdown, StopReturn, IsStop, NoStop
<1>2. Stopping
  BY DEF Stopping, StopStep, StopRelease, StopRegs, StopRegWrite, StopSave, StopWrite,
     StopFails, StopShutdown, StopReturn
<1>3. ASSUME stops'[k].stage # "no" PROVE Stopping' /\ since' = since
  BY <1>2, <1>3 DEF Stopping, Tracked, ServerInv
<1>4. CASE StopRelease(k) \/ StopRegs(k) \/ StopRegWrite(k)
  <2>1. /\ stops'[k].stage \in {"regs", "regwrite", "save"}
        /\ stops[k].stage \in {"release", "regs", "regwrite"}
        /\ UNCHANGED <<file, spoiled>>
    BY <1>4 DEF StopsOK, ServerInv, StopRelease, StopRegs, StopRegWrite, IsStop
  <2>2. Stopping' /\ since' = since
    BY <1>3, <2>1
  <2>3. Writing' = Writing /\ Saved' = Saved
    BY <1>1, <2>1 DEF Writing, Saved, OnlyStop
  <2>4. ServerInv'
    BY <1>0, <1>1, <2>1, <2>2, <2>3 DEF StopsOK, ServerInv, OnlyStop
  <2> QED
    BY <1>0, <1>2, <2>1, <2>2, <2>4 DEF Implements, Contract!cvars
<1>5. CASE StopSave(k)
  <2>1. /\ stops'[k].stage = "write" /\ stops'[k].paramsets = AsJson(overrides)
        /\ file' = Torn /\ spoiled' = FALSE
    BY <1>5 DEF StopsOK, ServerInv, StopSave, ToSave, NoStop, IsStop
  <2>2. Stopping' /\ since' = since
    BY <1>3, <2>1
  <2>3. Writing'
    BY <2>1 DEF Writing
  <2>4. ServerInv'
    BY <1>0, <1>1, <2>1, <2>2, <2>3 DEF StopsOK, ServerInv, OnlyStop
  <2> QED
    BY <1>0, <1>2, <2>1, <2>2, <2>4 DEF Implements, Contract!CNext, Contract!Empty
<1>6. CASE StopWrite(k)
  <2>1. /\ stops'[k].stage = "shutdown" /\ file' \in since /\ spoiled' = spoiled
    BY <1>6 DEF StopsOK, ServerInv, StopWrite, IsStop
  <2>2. Stopping' /\ since' = since
    BY <1>3, <2>1
  <2>3. ServerInv'
    BY <1>0, <1>1, <2>1, <2>2 DEF StopsOK, ServerInv, OnlyStop
  <2> QED
    BY <1>0, <1>2, <2>1, <2>2, <2>3 DEF Implements, Contract!CNext, Contract!Save
<1>7. CASE StopFails(k)
  <2>1. stops'[k].stage = "shutdown" /\ file' \in {file, Torn} /\ spoiled' = TRUE
    BY <1>7 DEF StopsOK, ServerInv, StopFails, IsStop
  <2>2. Stopping' /\ since' = since
    BY <1>3, <2>1
  <2>3. ServerInv'
    BY <1>0, <1>1, <2>1, <2>2 DEF StopsOK, ServerInv, OnlyStop
  <2> QED
    BY <1>0, <1>2, <2>1, <2>2, <2>3 DEF Implements, Contract!CNext, Contract!Spoil
<1>8. CASE StopShutdown(k)
  <2>1. /\ stops'[k].stage = "drain" /\ stops[k].stage = "shutdown"
        /\ UNCHANGED <<file, spoiled>>
    BY <1>8 DEF StopsOK, ServerInv, StopShutdown, IsStop
  <2>2. Stopping' /\ since' = since
    BY <1>3, <2>1
  <2>3. Writing' = Writing /\ Saved' = Saved
    BY <1>1, <2>1 DEF Writing, Saved, OnlyStop
  <2>4. ServerInv'
    BY <1>0, <1>1, <2>1, <2>2, <2>3 DEF StopsOK, ServerInv, OnlyStop
  <2> QED
    BY <1>0, <1>2, <2>1, <2>2, <2>4 DEF Implements, Contract!cvars
<1>9. CASE StopReturn(k)
  <2>1. /\ stops'[k].stage = "no" /\ stops[k].stage \in {"shutdown", "drain"}
        /\ file' = file
        /\ spoiled' = IF Stopping' THEN spoiled ELSE FALSE
    BY <1>9 DEF StopsOK, ServerInv, StopReturn, NoStop
  <2>2. Writing' = Writing /\ Saved
    BY <1>1, <2>1 DEF Writing, Saved, OnlyStop
  <2>3. Saved' => Saved
    BY <2>2
  <2>4. CASE Stopping'
    <3>1. since' = since /\ spoiled' = spoiled
      BY <1>2, <2>1, <2>4 DEF Tracked, ServerInv
    <3>2. ServerInv'
      BY <1>0, <1>1, <2>1, <2>2, <2>4, <3>1 DEF StopsOK, ServerInv, OnlyStop
    <3> QED
      BY <1>0, <1>2, <2>1, <2>4, <3>1, <3>2 DEF Implements, Contract!cvars
  <2>5. CASE ~Stopping'
    <3>1. since' = {AsJson(overrides)} /\ spoiled' = FALSE
      BY <2>1, <2>5 DEF Tracked
    <3>2. ~Writing' /\ ~Saved'
      BY <2>5 DEF Stopping, Writing, Saved
    <3>3. file \in since \/ spoiled = TRUE
      BY <2>2, <3>2 DEF StopsOK, ServerInv
    <3>4. ServerInv'
      BY <1>0, <1>1, <2>1, <2>5, <3>1, <3>2, JsonTwice DEF StopsOK, ServerInv, OnlyStop, Stopping
    <3> QED
      BY <1>0, <1>2, <2>1, <2>5, <3>1, <3>3, <3>4 DEF Implements, Contract!CNext, Contract!Stopped
  <2> QED
    BY <2>4, <2>5
<1> QED
  BY <1>4, <1>5, <1>6, <1>7, <1>8, <1>9 DEF StopStep

\* The listeners and BIN-RPC do not matter to the contract.
LEMMA ListenerStep ==
  ASSUME ServerInv, Tracked,
         \/ StartTLS \/ StopTLS \/ Occupy
         \/ \E up \in BOOLEAN : SetBINRPC(up)
         \/ SuspendClose \/ SuspendBin \/ ResumeRest
  PROVE  ServerInv' /\ Implements
<1>1. UNCHANGED <<running, suspended, stops, file, spoiled>>
  BY DEF StartTLS, StopTLS, Occupy, SetBINRPC, SuspendClose, SuspendBin, ResumeRest
<1> QED
  BY <1>1, WriteOrStutter

\* The next process has the paramsets of the file, or none.
LEMMA BootStep ==
  ASSUME ServerInv, Tracked, Boot
  PROVE  ServerInv' /\ Implements
<1> DEFINE saved == IF file = Torn THEN <<>> ELSE file
<1>1. overrides' = saved /\ AsJson(saved) = saved
  BY JsonOfNothing DEF StopsOK, ServerInv, Boot, Loaded
<1>2. /\ since' = {saved}
      /\ phase' = "stopped"
      /\ file' = file
      /\ ~running' /\ ~suspended'
      /\ stops' = [k \in Stops |-> NoStop]
      /\ spoiled' = FALSE
      /\ ~Stopping'
  <2>1. stops' = [k \in Stops |-> NoStop] /\ ~Stopping'
    BY DEF Boot, Stopping, NoStop
  <2> QED
    BY <1>1, <2>1 DEF Tracked, Boot, phase
<1> HIDE DEF saved
<1>3. ServerInv'
  <2>1. ~Saved' /\ \A k \in Stops : stops'[k].stage # "write"
    BY <1>2 DEF Stopping, Saved
  <2>2. stops' = [k \in Stops |-> stops'[k]]
    BY <1>2
  <2>3. \A k \in Stops : IsStop(stops'[k])
    BY <1>2 DEF NoStop, IsStop
  <2> QED
    BY <1>1, <1>2, <2>1, <2>2, <2>3 DEF StopsOK, ServerInv
<1>4. Contract!Boot
  BY <1>1, <1>2 DEF Contract!Boot, saved
<1> QED
  BY <1>3, <1>4 DEF Implements, Contract!CNext

\* All other parts of the CCU write at most.
LEMMA OtherStep ==
  ASSUME [Next]_ccuVars, ~(LifeCall \/ LifeRun)
  PROVE  UNCHANGED serverVars /\ (Tracked \/ UNCHANGED <<overrides, since>>)
<1>1. CASE StoreCall \/ LinkCall \/ StoreRun \/ CatalogueCall \/ CatalogueRun
  BY <1>1 DEF StoreCall, LinkCall, StoreRun, CatalogueCall, CatalogueRun
<1>2. CASE FaultCall \/ FaultRun
  BY <1>2 DEF FaultCall, FaultRun, InjectFault, ClearFaults, Intercept, DelayEnds, LetGo
<1>3. CASE WebCall \/ Admission \/ StateCall \/ StateRun \/ VirtualCall \/ VirtualRun
  BY <1>3 DEF WebCall, Admission, StateCall, StateRun, VirtualCall, VirtualRun
<1>4. CASE WebRun
  BY <1>4, HandlersOnlyCall DEF WebRun
<1>5. CASE UNCHANGED ccuVars
  BY <1>5 DEF ccuVars, lifeVars, storeVars
<1> QED
  BY <1>1, <1>2, <1>3, <1>4, <1>5 DEF Next

\* Stops that ran to their end leave on disk the paramsets as they stood at some
\* moment after the first of them was asked for, or a write of the file failed or
\* two were cut into each other; and the next process starts from what is on
\* disk, for every number of stops that overlap each other and the next starts,
\* of writers, devices and callers (Stop, Start, SaveParamsets, Suspend, Resume,
\* loadParamsetsFromDisk).
THEOREM ServerKeepsContract == Spec => ServerImplements
<1>1. Init => ServerInv /\ Contract!CInit
  <2> SUFFICES ASSUME Init PROVE ServerInv /\ Contract!CInit
    OBVIOUS
  <2>1. /\ overrides = <<>> /\ file = <<>> /\ since = {<<>>} /\ spoiled = FALSE
        /\ stops = [k \in Stops |-> NoStop] /\ running = FALSE /\ suspended = FALSE
    BY DEF Init, StoreInit, LifeInit
  <2>2. ~Stopping /\ ~Saved /\ stops = [k \in Stops |-> stops[k]]
        /\ \A k \in Stops : stops[k].stage # "write" /\ IsStop(stops[k])
    BY <2>1 DEF Stopping, Saved, NoStop, IsStop
  <2> QED
    BY <2>1, <2>2, JsonOfNothing DEF StopsOK, ServerInv, Contract!CInit, phase, Stopping
<1>2. ServerInv /\ [Next]_ccuVars => ServerInv' /\ [Contract!CNext]_(Contract!cvars)
  <2> SUFFICES ASSUME ServerInv, [Next]_ccuVars PROVE ServerInv' /\ Implements
    BY DEF Implements
  <2>1. CASE LifeCall
    <3>1. CASE Boot
      BY <2>1, <3>1, BootStep DEF LifeCall
    <3>2. CASE UNCHANGED <<storeVars, catVars>>
      <4>1. UNCHANGED overrides
        BY <3>2 DEF storeVars
      <4> QED
        BY <2>1, <4>1, BootStep, LifeStep, AskStep, ListenerStep DEF LifeCall
    <3> QED
      BY <2>1, <3>1, <3>2 DEF LifeCall
  <2>2. CASE LifeRun
    <3>1. CASE ResumeRest
      BY <2>2, <3>1, ListenerStep DEF LifeRun
    <3>2. CASE UNCHANGED <<storeVars, catVars>>
      <4>1. UNCHANGED overrides
        BY <3>2 DEF storeVars
      <4> QED
        BY <2>2, <4>1, StopKeepsContract, ListenerStep DEF LifeRun
    <3> QED
      BY <2>2, <3>1, <3>2 DEF LifeRun
  <2>3. CASE ~(LifeCall \/ LifeRun)
    BY <2>3, OtherStep, WriteOrStutter DEF serverVars
  <2> QED
    BY <2>1, <2>2, <2>3
<1> QED
  BY <1>1, <1>2, PTL DEF Spec, ServerImplements, Contract!CSpec

-----------------------------------------------------------------------------
(* What the clients know of the devices                                    *)

\* What a client that holds copy has wrong at the address a.
Wrong(copy, a) ==
  IF a \in devices THEN a \notin DOMAIN copy \/ (semantics /\ copy[a] # Current)
  ELSE a \in DOMAIN copy

\* The operation w will tell the client c of the address a.
Corrects(w, c, a) ==
  \/ w.stage = "loaded" /\ a \in w.list
  \/ w.stage = "ask" /\ w.client = c
  \/ w.stage = "asked" /\ w.client = c /\ Wrong(w.known, a)
  \/ w.stage = "push" /\ \E i \in 1 .. Len(w.calls) : Tells(w.calls[i], c, a)

IsSeq(s) == Len(s) \in Nat /\ s = [i \in 1 .. Len(s) |-> s[i]]

WorkOK(w) ==
  /\ w.stage \in {"loaded", "ask", "asked", "push"}
  /\ w.stage = "push" => IsSeq(w.calls) /\ w.calls # <<>>

\* What is written of the registrations.
SavedOK ==
  /\ fileRegs \subseteq Clients /\ IsFiniteSet(fileRegs)
  /\ StopsOK
  /\ \A k \in Stops : stops[k].regs \subseteq Clients /\ IsFiniteSet(stops[k].regs)

RegistrationsOK ==
  /\ registered \subseteq Clients /\ IsFiniteSet(registered)
  /\ SavedOK
  /\ DOMAIN copies = Clients

\* What the operation w may tell the client c.
Fair(w, c) ==
  /\ w.stage = "push" => Harmless(w.calls, c)
  /\ w.stage = "loaded" /\ c \in registered => w.list \subseteq devices

\* What c has wrong, an operation will put right.
InTouch(c) == \A a : Wrong(copies[c], a) => \E w \in work : Corrects(w, c, a)

\* Clients that are not upset are told the truth, and all of it.
SyncInv ==
  /\ RegistrationsOK
  /\ \A w \in work : WorkOK(w)
  /\ \A c \in Clients \ upset, w \in work : Fair(w, c)
  /\ \A c \in registered \ upset : InTouch(c)

-----------------------------------------------------------------------------
(* Sequences of calls                                                      *)

LEMMA TailOfCalls ==
  ASSUME NEW s, IsSeq(s), s # <<>>
  PROVE  /\ Len(s) >= 1 /\ Head(s) = s[1]
         /\ IsSeq(Tail(s)) /\ Len(Tail(s)) = Len(s) - 1
         /\ \A i \in 1 .. Len(s) - 1 : Tail(s)[i] = s[i + 1]
<1> DEFINE S == {s[i] : i \in 1 .. Len(s)}
<1>1. s \in Seq(S)
  BY DEF IsSeq
<1> HIDE DEF S
<1>2. Len(s) >= 1 /\ Head(s) = s[1] /\ Tail(s) \in Seq(S) /\ Len(Tail(s)) = Len(s) - 1
      /\ \A i \in 1 .. Len(s) - 1 : Tail(s)[i] = s[i + 1]
  BY <1>1
<1>3. IsSeq(Tail(s))
  <2>1. \A t \in Seq(S) : Len(t) \in Nat /\ t = [i \in 1 .. Len(t) |-> t[i]]
    OBVIOUS
  <2> QED
    BY <1>2, <2>1 DEF IsSeq
<1> QED
  BY <1>2, <1>3

\* Each registered client gets its call.
LEMMA CallsToAll ==
  ASSUME RegistrationsOK, NEW method, NEW list, NEW calls \in Broadcasts(method, list)
  PROVE  /\ IsSeq(calls)
         /\ \A i \in 1 .. Len(calls) :
              calls[i].method = method /\ calls[i].list = list /\ calls[i].client \in registered
         /\ \A c \in registered : \E i \in 1 .. Len(calls) : calls[i].client = c
<1> DEFINE n == Cardinality(registered)
<1>1. PICK order \in SetToSeqs(registered) : calls = [i \in 1 .. Len(order) |-> Call(order[i], method, list)]
  BY DEF Broadcasts
<1>2. IsFiniteSet(registered) /\ n \in Nat
  BY FS_CardinalityType DEF RegistrationsOK, SavedOK, StopsOK
<1>3. order \in [1 .. n -> registered] /\ \A i, j \in 1 .. n : i # j => order[i] # order[j]
  BY DEF SetToSeqs
<1> HIDE DEF n
<1>4. Len(order) = n
  BY <1>2, <1>3
<1>5. \A c \in registered : \E i \in 1 .. n : order[i] = c
  <2>1. order \in Injection(1 .. n, registered)
    BY <1>3 DEF Injection, IsInjective
  <2>2. IsFiniteSet(1 .. n) /\ Cardinality(1 .. n) = n
    BY <1>2, FS_Interval
  <2>3. order \in Surjection(1 .. n, registered)
    BY <1>2, <2>1, <2>2, FS_Injection DEF n
  <2> QED
    BY <2>3 DEF Surjection
<1>6. /\ Len(calls) = n /\ calls = [i \in 1 .. n |-> calls[i]]
      /\ \A i \in 1 .. n : calls[i] = Call(order[i], method, list)
  BY <1>1, <1>2, <1>4
<1> QED
  BY <1>2, <1>3, <1>5, <1>6 DEF IsSeq, Call

\* The clients that are asked again are the registered ones.
LEMMA OrderOfAll ==
  ASSUME RegistrationsOK
  PROVE  LET order == SetToSeq(registered) IN
         /\ Len(order) \in Nat
         /\ \A i \in 1 .. Len(order) : order[i] \in registered
         /\ \A c \in registered : \E i \in 1 .. Len(order) : order[i] = c
<1> DEFINE n     == Cardinality(registered)
           order == SetToSeq(registered)
<1>1. IsFiniteSet(registered) /\ n \in Nat /\ ExistsBijection(1 .. n, registered)
  BY FS_CardinalityType DEF RegistrationsOK, SavedOK, StopsOK
<1>2. \E f \in [1 .. n -> registered] : IsInjective(f)
  BY <1>1 DEF ExistsBijection, Bijection, Injection
<1>3. order \in [1 .. n -> registered] /\ IsInjective(order)
  BY <1>2 DEF SetToSeq
<1> HIDE DEF n, order
<1>4. Len(order) = n
  BY <1>1, <1>3
<1>5. order \in Injection(1 .. n, registered)
  BY <1>3 DEF Injection
<1>6. IsFiniteSet(1 .. n) /\ Cardinality(1 .. n) = n
  BY <1>1, FS_Interval
<1>7. order \in Surjection(1 .. n, registered)
  BY <1>1, <1>5, <1>6, FS_Injection DEF n
<1> QED
  BY <1>1, <1>3, <1>4, <1>7 DEF Surjection, order

-----------------------------------------------------------------------------
(* Operations go on                                                        *)

\* As long as the devices stay the same, calls mean what they meant.
LEMMA SameMeaning ==
  ASSUME UNCHANGED <<devices, semantics>>
  PROVE  /\ \A copy, a : Wrong(copy, a)' <=> Wrong(copy, a)
         /\ \A call, c, a : Tells(call, c, a)' <=> Tells(call, c, a)
         /\ \A w, c, a : Corrects(w, c, a)' <=> Corrects(w, c, a)
         /\ \A calls, c : Harmless(calls, c)' <=> Harmless(calls, c)
<1>1. \A copy, a : Wrong(copy, a)' <=> Wrong(copy, a)
  BY DEF Wrong
<1>2. \A call, c, a : Tells(call, c, a)' <=> Tells(call, c, a)
  BY DEF Tells
<1>3. \A w, c, a : Corrects(w, c, a)' <=> Corrects(w, c, a)
  BY <1>1, <1>2 DEF Corrects
<1>4. \A calls, c : Harmless(calls, c)' <=> Harmless(calls, c)
  BY <1>2 DEF Harmless
<1> QED
  BY <1>1, <1>2, <1>3, <1>4

\* An operation makes way for the operations new; nobody is registered meanwhile.
LEMMA WorkGoesOn ==
  ASSUME SyncInv, UNCHANGED <<devices, semantics, registered, fileRegs, stops>>,
         DOMAIN copies' = Clients, upset \subseteq upset',
         NEW w \in work, NEW new, work' = (work \ {w}) \cup new,
         \A v \in new : WorkOK(v) /\ v.stage # "loaded",
         \A v \in new, c \in Clients \ upset' : v.stage = "push" => Harmless(v.calls, c),
         \A c \in registered \ upset' : \A a : Wrong(copies'[c], a) =>
           \/ Wrong(copies[c], a) /\ ~Corrects(w, c, a)
           \/ \E v \in new : Corrects(v, c, a)
  PROVE  SyncInv'
<1>1. RegistrationsOK'
  BY DEF SyncInv, RegistrationsOK, SavedOK, StopsOK
<1>2. \A v \in work' : v \in work \/ v \in new
  OBVIOUS
<1>3. (\A v \in work : WorkOK(v))'
  BY <1>2 DEF SyncInv, WorkOK
<1>4. (\A c \in Clients \ upset, v \in work : Fair(v, c))'
  <2> SUFFICES ASSUME NEW c \in Clients \ upset', NEW v \in work' PROVE Fair(v, c)'
    OBVIOUS
  <2>1. CASE v \in work
    BY <2>1, SameMeaning DEF SyncInv, Fair
  <2>2. CASE v \in new
    BY <2>2, SameMeaning DEF Fair
  <2> QED
    BY <1>2, <2>1, <2>2
<1>5. (\A c \in registered \ upset : InTouch(c))'
  <2> SUFFICES ASSUME NEW c \in registered \ upset', NEW a, Wrong(copies'[c], a)
               PROVE  \E v \in work' : Corrects(v, c, a)
    BY SameMeaning DEF InTouch
  <2>1. CASE \E v \in new : Corrects(v, c, a)
    BY <2>1
  <2>2. CASE Wrong(copies[c], a) /\ ~Corrects(w, c, a)
    <3>1. PICK v \in work : Corrects(v, c, a)
      BY <2>2 DEF SyncInv, InTouch
    <3> QED
      BY <2>2, <3>1
  <2> QED
    BY <2>1, <2>2
<1> QED
  BY <1>1, <1>3, <1>4, <1>5 DEF SyncInv

\* An operation goes on with calls.
LEMMA CallsGoOn ==
  ASSUME SyncInv, UNCHANGED <<devices, semantics, registered, fileRegs, stops>>,
         DOMAIN copies' = Clients, upset \subseteq upset',
         NEW w \in work, NEW calls, GoesOnWith(w, calls), IsSeq(calls),
         \A c \in Clients \ upset' : Harmless(calls, c),
         \A c \in registered \ upset' : \A a : Wrong(copies'[c], a) =>
           \/ Wrong(copies[c], a) /\ ~Corrects(w, c, a)
           \/ \E i \in 1 .. Len(calls) : Tells(calls[i], c, a)
  PROVE  SyncInv'
<1> DEFINE v == Calling(w.n, calls)
<1>1. v.stage = "push" /\ v.calls = calls
  BY DEF Calling
<1>2. CASE calls = <<>>
  <2> DEFINE new == {}
  <2>1. work' = (work \ {w}) \cup new
    BY <1>2 DEF GoesOnWith, Ends
  <2>2. \A c \in registered \ upset' : \A a : Wrong(copies'[c], a) =>
           \/ Wrong(copies[c], a) /\ ~Corrects(w, c, a)
           \/ \E x \in new : Corrects(x, c, a)
    BY <1>2
  <2>3. /\ \A x \in new : WorkOK(x) /\ x.stage # "loaded"
        /\ \A x \in new, c \in Clients \ upset' : x.stage = "push" => Harmless(x.calls, c)
    OBVIOUS
  <2> HIDE DEF new
  <2> QED
    BY <2>1, <2>2, <2>3, WorkGoesOn
<1>3. CASE calls # <<>>
  <2> DEFINE new == {v}
  <2>1. work' = (work \ {w}) \cup new
    BY <1>3 DEF GoesOnWith, GoesOn
  <2>2. WorkOK(v)
    BY <1>1, <1>3 DEF WorkOK
  <2>3. \A c, a : (\E i \in 1 .. Len(calls) : Tells(calls[i], c, a)) => Corrects(v, c, a)
    BY <1>1 DEF Corrects
  <2> HIDE DEF v
  <2>4. \A c \in registered \ upset' : \A a : Wrong(copies'[c], a) =>
           \/ Wrong(copies[c], a) /\ ~Corrects(w, c, a)
           \/ \E x \in new : Corrects(x, c, a)
    BY <2>3
  <2>5. \A x \in new : WorkOK(x) /\ x.stage # "loaded"
    BY <1>1, <2>2
  <2>6. \A x \in new, c \in Clients \ upset' : x.stage = "push" => Harmless(x.calls, c)
    BY <1>1
  <2> HIDE DEF new
  <2> QED
    BY <2>1, <2>4, <2>5, <2>6, WorkGoesOn
<1> QED
  BY <1>2, <1>3

\* AddDevices tells its clients.
LEMMA AddTellKeepsSync ==
  ASSUME SyncInv, UNCHANGED <<fileRegs, stops>>, NEW w \in work, AddTell(w)
  PROVE  SyncInv'
<1>1. PICK calls \in Broadcasts("newDevices", w.list) : GoesOnWith(w, calls)
  BY DEF AddTell
<1>2. /\ w.stage = "loaded"
      /\ UNCHANGED <<devices, semantics, registered, copies, upset>>
  BY DEF AddTell, storeVars
<1>3. /\ IsSeq(calls)
      /\ \A i \in 1 .. Len(calls) :
           calls[i].method = "newDevices" /\ calls[i].list = w.list /\ calls[i].client \in registered
      /\ \A c \in registered : \E i \in 1 .. Len(calls) : calls[i].client = c
  BY <1>1, CallsToAll DEF SyncInv
<1>4. \A c \in registered \ upset : w.list \subseteq devices
  BY <1>2 DEF SyncInv, Fair, RegistrationsOK, SavedOK, StopsOK
<1>5. \A c \in Clients \ upset' : Harmless(calls, c)
  <2> SUFFICES ASSUME NEW c \in Clients \ upset, NEW i \in 1 .. Len(calls), calls[i].client = c,
                      NEW a \in calls[i].list
               PROVE  \E j \in i .. Len(calls) : Tells(calls[j], c, a)
    BY <1>2 DEF Harmless
  <2>1. Tells(calls[i], c, a)
    BY <1>3, <1>4 DEF Tells
  <2>2. i \in i .. Len(calls)
    BY <1>3 DEF IsSeq
  <2> QED
    BY <2>1, <2>2
<1>6. ASSUME NEW c \in registered \ upset', NEW a, Corrects(w, c, a)
      PROVE  \E i \in 1 .. Len(calls) : Tells(calls[i], c, a)
  <2>1. a \in w.list
    BY <1>2, <1>6 DEF Corrects
  <2>2. PICK i \in 1 .. Len(calls) : calls[i].client = c
    BY <1>2, <1>3
  <2> QED
    BY <1>2, <1>3, <1>4, <2>1, <2>2 DEF Tells
<1>7. DOMAIN copies' = Clients
  BY <1>2 DEF SyncInv, RegistrationsOK, SavedOK, StopsOK
<1>8. \A c \in registered \ upset' : \A a : Wrong(copies'[c], a) =>
           \/ Wrong(copies[c], a) /\ ~Corrects(w, c, a)
           \/ \E i \in 1 .. Len(calls) : Tells(calls[i], c, a)
  BY <1>2, <1>6
<1> QED
  BY <1>1, <1>2, <1>3, <1>5, <1>7, <1>8, CallsGoOn

\* A client answers listDevices, or does not.
LEMMA AskKeepsSync ==
  ASSUME SyncInv, UNCHANGED <<fileRegs, stops>>, NEW w \in work, Ask(w) \/ AskFails(w)
  PROVE  SyncInv'
<1>1. /\ w.stage = "ask"
      /\ UNCHANGED <<devices, semantics, registered, copies>> /\ upset \subseteq upset'
      /\ DOMAIN copies' = Clients
  BY DEF Ask, AskFails, storeVars, SyncInv, RegistrationsOK, SavedOK, StopsOK
<1>2. \A c, a : Corrects(w, c, a) => w.client = c
  BY <1>1 DEF Corrects
<1>3. CASE Ask(w) /\ w.client \in registered
  <2> DEFINE v   == Asked(w.n, w.client, copies[w.client])
             new == {v}
  <2>1. work' = (work \ {w}) \cup new
    BY <1>3 DEF Ask, GoesOn
  <2>2. v.stage = "asked" /\ v.client = w.client /\ v.known = copies[w.client] /\ WorkOK(v)
    BY DEF Asked, WorkOK
  <2> HIDE DEF v
  <2>3. \A c \in registered \ upset' : \A a : Wrong(copies'[c], a) =>
          \/ Wrong(copies[c], a) /\ ~Corrects(w, c, a)
          \/ \E x \in new : Corrects(x, c, a)
    BY <1>1, <1>2, <2>2 DEF Corrects
  <2>4. /\ \A x \in new : WorkOK(x) /\ x.stage # "loaded"
        /\ \A x \in new, c \in Clients \ upset' : x.stage = "push" => Harmless(x.calls, c)
    BY <2>2
  <2> HIDE DEF new
  <2> QED
    BY <1>1, <2>1, <2>3, <2>4, WorkGoesOn
<1>4. CASE ~(Ask(w) /\ w.client \in registered)
  <2> DEFINE new == {}
  <2>1. work' = (work \ {w}) \cup new
    BY <1>4 DEF Ask, AskFails, Ends
  <2>2. w.client \notin registered \ upset'
    BY <1>4 DEF Ask, AskFails
  <2>3. \A c \in registered \ upset' : \A a : Wrong(copies'[c], a) =>
          \/ Wrong(copies[c], a) /\ ~Corrects(w, c, a)
          \/ \E x \in new : Corrects(x, c, a)
    BY <1>1, <1>2, <2>2
  <2>4. /\ \A x \in new : WorkOK(x) /\ x.stage # "loaded"
        /\ \A x \in new, c \in Clients \ upset' : x.stage = "push" => Harmless(x.calls, c)
    OBVIOUS
  <2> HIDE DEF new
  <2> QED
    BY <1>1, <2>1, <2>3, <2>4, WorkGoesOn
<1> QED
  BY <1>3, <1>4

LEMMA BothCalls ==
  ASSUME NEW p, NEW q
  PROVE  LET s == Worth(p) \o Worth(q) IN
         /\ IsSeq(s)
         /\ \A i \in 1 .. Len(s) : s[i] = p \/ s[i] = q
         /\ p.list # {} => Len(s) >= 1 /\ s[1] = p
         /\ q.list # {} => Len(s) >= 1 /\ s[Len(s)] = q
<1>1. CASE p.list = {} /\ q.list = {}
  BY <1>1 DEF Worth, IsSeq
<1>2. CASE p.list # {} /\ q.list = {}
  <2>1. Worth(p) \o Worth(q) = <<p>>
    BY <1>2 DEF Worth
  <2> QED
    BY <1>2, <2>1 DEF IsSeq
<1>3. CASE p.list = {} /\ q.list # {}
  <2>1. Worth(p) \o Worth(q) = <<q>>
    BY <1>3 DEF Worth
  <2> QED
    BY <1>3, <2>1 DEF IsSeq
<1>4. CASE p.list # {} /\ q.list # {}
  <2> DEFINE S == {p, q}
             s == Worth(p) \o Worth(q)
  <2>1. \A x \in S : <<x>> \in Seq(S) /\ Len(<<x>>) = 1 /\ <<x>>[1] = x
    OBVIOUS
  <2>2. Worth(p) = <<p>> /\ Worth(q) = <<q>> /\ p \in S /\ q \in S
    BY <1>4 DEF Worth
  <2> HIDE DEF S
  <2>3. s \in Seq(S) /\ Len(s) = 2 /\ s[1] = p /\ s[2] = q
    BY <2>1, <2>2, ConcatProperties
  <2> HIDE DEF s
  <2>4. IsSeq(s)
    BY <2>3 DEF IsSeq
  <2> QED
    BY <2>3, <2>4 DEF s
<1> QED
  BY <1>1, <1>2, <1>3, <1>4

\* A diff names what the client has wrong, and nothing that is not so in the end.
LEMMA DiffKeepsSync ==
  ASSUME SyncInv, UNCHANGED <<fileRegs, stops>>, NEW w \in work, Diff(w)
  PROVE  SyncInv'
<1> DEFINE c     == w.client
           known == w.known
           goes  == Call(c, "deleteDevices", IF semantics THEN (DOMAIN known \ devices) \cup Again(known)
                                                          ELSE DOMAIN known \ devices)
           fresh == Call(c, "newDevices", IF semantics THEN (devices \ DOMAIN known) \cup Again(known)
                                                       ELSE devices \ DOMAIN known)
           calls == IF semantics THEN ReconcileDevices(c, known) ELSE PushDevices(c, known)
<1>1. /\ w.stage = "asked" /\ GoesOnWith(w, calls)
      /\ UNCHANGED <<devices, semantics, registered, copies, upset>>
  BY DEF Diff, storeVars
<1>2. /\ goes.client = c /\ goes.method = "deleteDevices"
      /\ fresh.client = c /\ fresh.method = "newDevices"
      /\ fresh.list \subseteq devices
      /\ \A a \in goes.list : a \in devices => a \in fresh.list
      /\ \A a : Wrong(known, a) => a \in (IF a \in devices THEN fresh.list ELSE goes.list)
  BY DEF Call, Again, Wrong
<1>3. calls = IF semantics THEN Worth(goes) \o Worth(fresh) ELSE Worth(fresh) \o Worth(goes)
  BY DEF ReconcileDevices, PushDevices
<1> HIDE DEF goes, fresh, calls
<1>4. /\ IsSeq(calls)
      /\ \A i \in 1 .. Len(calls) : calls[i] = goes \/ calls[i] = fresh
      /\ goes.list # {} => \E i \in 1 .. Len(calls) : calls[i] = goes
      /\ fresh.list # {} => \E i \in 1 .. Len(calls) : calls[i] = fresh
      /\ semantics /\ fresh.list # {} => Len(calls) >= 1 /\ calls[Len(calls)] = fresh
  <2>1. CASE semantics
    <3>1. calls = Worth(goes) \o Worth(fresh)
      BY <1>3, <2>1
    <3>2. /\ IsSeq(calls)
          /\ \A i \in 1 .. Len(calls) : calls[i] = goes \/ calls[i] = fresh
          /\ goes.list # {} => Len(calls) >= 1 /\ calls[1] = goes
          /\ fresh.list # {} => Len(calls) >= 1 /\ calls[Len(calls)] = fresh
      BY <3>1, BothCalls
    <3>3. Len(calls) \in Nat
      BY <3>2 DEF IsSeq
    <3> QED
      BY <2>1, <3>2, <3>3
  <2>2. CASE ~semantics
    <3>1. calls = Worth(fresh) \o Worth(goes)
      BY <1>3, <2>2
    <3>2. /\ IsSeq(calls)
          /\ \A i \in 1 .. Len(calls) : calls[i] = fresh \/ calls[i] = goes
          /\ fresh.list # {} => Len(calls) >= 1 /\ calls[1] = fresh
          /\ goes.list # {} => Len(calls) >= 1 /\ calls[Len(calls)] = goes
      BY <3>1, BothCalls
    <3>3. Len(calls) \in Nat
      BY <3>2 DEF IsSeq
    <3> QED
      BY <2>2, <3>2, <3>3
  <2> QED
    BY <2>1, <2>2
<1>5. ASSUME NEW d \in Clients \ upset' PROVE Harmless(calls, d)
  <2> SUFFICES ASSUME NEW i \in 1 .. Len(calls), calls[i].client = d, NEW a \in calls[i].list
               PROVE  \E j \in i .. Len(calls) : Tells(calls[j], d, a)
    BY DEF Harmless
  <2>0. Len(calls) \in Nat /\ i \in i .. Len(calls) /\ Len(calls) \in i .. Len(calls)
    BY <1>4 DEF IsSeq
  <2>1. CASE Tells(calls[i], d, a)
    BY <2>0, <2>1
  <2>2. CASE ~Tells(calls[i], d, a)
    <3>1. calls[i] = goes /\ a \in devices
      BY <1>2, <1>4, <2>2 DEF Tells
    <3>2. a \in fresh.list
      BY <1>2, <3>1
    <3>3. semantics
      BY <3>1 DEF goes, Call
    <3>4. calls[Len(calls)] = fresh
      BY <1>4, <3>2, <3>3
    <3>5. Tells(calls[Len(calls)], d, a)
      BY <1>2, <3>1, <3>2, <3>4 DEF Tells
    <3> QED
      BY <2>0, <3>5
  <2> QED
    BY <2>1, <2>2
<1>6. ASSUME NEW d, NEW a, Corrects(w, d, a)
      PROVE  \E i \in 1 .. Len(calls) : Tells(calls[i], d, a)
  <2>1. d = c /\ Wrong(known, a)
    BY <1>1, <1>6 DEF Corrects
  <2>2. CASE a \in devices
    BY <1>2, <1>4, <2>1, <2>2 DEF Tells
  <2>3. CASE a \notin devices
    BY <1>2, <1>4, <2>1, <2>3 DEF Tells
  <2> QED
    BY <2>2, <2>3
<1>7. \A d \in registered \ upset' : \A a : Wrong(copies'[d], a) =>
           \/ Wrong(copies[d], a) /\ ~Corrects(w, d, a)
           \/ \E i \in 1 .. Len(calls) : Tells(calls[i], d, a)
  BY <1>1, <1>6
<1>8. DOMAIN copies' = Clients
  BY <1>1 DEF SyncInv, RegistrationsOK, SavedOK, StopsOK
<1> QED
  BY <1>1, <1>4, <1>5, <1>7, <1>8, CallsGoOn

\* What is left of the calls of an operation, once the first was made.
LEMMA CallsLeft ==
  ASSUME SyncInv, NEW w \in work, w.stage = "push"
  PROVE  /\ IsSeq(Tail(w.calls)) /\ Len(w.calls) \in Nat /\ Head(w.calls) = w.calls[1]
         /\ \A c, a : (\E j \in 1 .. Len(w.calls) : Tells(w.calls[j], c, a)) =>
              \/ Tells(Head(w.calls), c, a)
              \/ \E i \in 1 .. Len(Tail(w.calls)) : Tells(Tail(w.calls)[i], c, a)
         /\ \A c \in Clients \ upset : Harmless(Tail(w.calls), c)
<1> DEFINE s == w.calls
           t == Tail(w.calls)
<1>1. IsSeq(s) /\ s # <<>>
  BY DEF SyncInv, WorkOK
<1>2. /\ Len(s) \in Nat /\ Len(s) >= 1 /\ Head(s) = s[1] /\ IsSeq(t) /\ Len(t) = Len(s) - 1
      /\ \A i \in 1 .. Len(s) - 1 : t[i] = s[i + 1]
  BY <1>1, TailOfCalls DEF IsSeq
<1>3. \A c \in Clients \ upset : Harmless(s, c)
  BY DEF SyncInv, Fair
<1> HIDE DEF s, t
<1>4. \A j \in 1 .. Len(s) : j = 1 \/ (j - 1 \in 1 .. Len(t) /\ t[j - 1] = s[j])
  BY <1>2
<1>5. \A c, a : (\E j \in 1 .. Len(s) : Tells(s[j], c, a)) =>
              Tells(Head(s), c, a) \/ \E i \in 1 .. Len(t) : Tells(t[i], c, a)
  <2> SUFFICES ASSUME NEW c, NEW a, NEW j \in 1 .. Len(s), Tells(s[j], c, a)
               PROVE  Tells(Head(s), c, a) \/ \E i \in 1 .. Len(t) : Tells(t[i], c, a)
    OBVIOUS
  <2> QED
    BY <1>2, <1>4
<1>6. \A c \in Clients \ upset : Harmless(t, c)
  <2> SUFFICES ASSUME NEW c \in Clients \ upset, NEW i \in 1 .. Len(t), t[i].client = c,
                      NEW a \in t[i].list
               PROVE  \E j \in i .. Len(t) : Tells(t[j], c, a)
    BY DEF Harmless
  <2>1. i + 1 \in 1 .. Len(s) /\ s[i + 1] = t[i]
    BY <1>2
  <2>2. PICK k \in i + 1 .. Len(s) : Tells(s[k], c, a)
    BY <1>3, <2>1 DEF Harmless
  <2>3. k - 1 \in i .. Len(t) /\ t[k - 1] = s[k]
    BY <1>2, <1>4
  <2> QED
    BY <2>2, <2>3
<1> QED
  BY <1>2, <1>5, <1>6 DEF s, t

\* A call reaches its client.
LEMMA DeliverKeepsSync ==
  ASSUME SyncInv, UNCHANGED <<fileRegs, stops>>, NEW w \in work, Deliver(w)
  PROVE  SyncInv'
<1> DEFINE calls == Tail(w.calls)
           call  == Head(w.calls)
           copy  == copies[call.client]
           new   == IF call.method = "newDevices"
                    THEN [a \in call.list \cup DOMAIN copy |-> IF a \in call.list THEN Current ELSE copy[a]]
                    ELSE Restrict(copy, DOMAIN copy \ call.list)
<1>1. /\ w.stage = "push" /\ GoesOnWith(w, calls)
      /\ copies' = [copies EXCEPT ![call.client] = new]
      /\ UNCHANGED <<devices, semantics, registered, upset>>
  BY DEF Deliver, storeVars
<1>2. /\ IsSeq(calls) /\ Len(w.calls) \in Nat /\ call = w.calls[1]
      /\ \A c, a : (\E j \in 1 .. Len(w.calls) : Tells(w.calls[j], c, a)) =>
           Tells(call, c, a) \/ \E i \in 1 .. Len(calls) : Tells(calls[i], c, a)
      /\ \A c \in Clients \ upset : Harmless(calls, c)
  BY <1>1, CallsLeft
<1>3. DOMAIN copies = Clients /\ DOMAIN copies' = Clients /\ registered \subseteq Clients
  BY <1>1 DEF SyncInv, RegistrationsOK, SavedOK, StopsOK
<1>4. \A c, a : Corrects(w, c, a) => Tells(call, c, a) \/ \E i \in 1 .. Len(calls) : Tells(calls[i], c, a)
  BY <1>1, <1>2 DEF Corrects
<1>5. \A a : Tells(call, call.client, a) => ~Wrong(new, a)
  <2> SUFFICES ASSUME NEW a, Tells(call, call.client, a) PROVE ~Wrong(new, a)
    OBVIOUS
  <2>1. CASE a \in devices
    BY <2>1 DEF Tells, Wrong
  <2>2. CASE a \notin devices
    BY <2>2 DEF Tells, Wrong, Restrict
  <2> QED
    BY <2>1, <2>2
<1>6. \A a : a \notin call.list => (Wrong(new, a) => Wrong(copy, a))
  BY DEF Wrong, Restrict
<1>7. \A c \in Clients \ upset, a \in call.list : call.client = c =>
        Tells(call, c, a) \/ \E i \in 1 .. Len(calls) : Tells(calls[i], c, a)
  <2> SUFFICES ASSUME NEW c \in Clients \ upset, NEW a \in call.list, call.client = c
               PROVE  \E j \in 1 .. Len(w.calls) : Tells(w.calls[j], c, a)
    BY <1>2
  <2>1. Harmless(w.calls, c) /\ w.calls # <<>> /\ IsSeq(w.calls)
    BY <1>1 DEF SyncInv, Fair, WorkOK
  <2>2. Len(w.calls) >= 1
    BY <2>1, TailOfCalls
  <2> QED
    BY <1>2, <2>1, <2>2 DEF Harmless
<1> HIDE DEF new, copy, call, calls
<1>8. \A c \in registered \ upset' : \A a : Wrong(copies'[c], a) =>
           \/ Wrong(copies[c], a) /\ ~Corrects(w, c, a)
           \/ \E i \in 1 .. Len(calls) : Tells(calls[i], c, a)
  <2> SUFFICES ASSUME NEW c \in registered \ upset, NEW a, Wrong(copies'[c], a),
                      ~ \E i \in 1 .. Len(calls) : Tells(calls[i], c, a)
               PROVE  Wrong(copies[c], a) /\ ~Corrects(w, c, a)
    BY <1>1
  <2>1. CASE c # call.client
    <3>1. copies'[c] = copies[c] /\ ~Tells(call, c, a)
      BY <1>1, <1>3, <2>1 DEF Tells
    <3> QED
      BY <1>4, <3>1
  <2>2. CASE c = call.client
    <3>1. copies'[c] = new /\ copies[c] = copy
      BY <1>1, <1>3, <2>2 DEF copy
    <3>2. ~Tells(call, c, a)
      BY <1>5, <2>2, <3>1
    <3>3. a \notin call.list
      BY <1>3, <1>7, <2>2, <3>2
    <3> QED
      BY <1>4, <1>6, <3>1, <3>2, <3>3
  <2> QED
    BY <2>1, <2>2
<1> QED
  BY <1>1, <1>2, <1>3, <1>8, CallsGoOn

\* A call is lost.
LEMMA LoseKeepsSync ==
  ASSUME SyncInv, UNCHANGED <<fileRegs, stops>>, NEW w \in work, Lose(w)
  PROVE  SyncInv'
<1> DEFINE calls == Tail(w.calls)
           call  == Head(w.calls)
<1>1. /\ w.stage = "push" /\ GoesOnWith(w, calls)
      /\ UNCHANGED <<devices, semantics, registered, copies>>
      /\ upset' = upset \cup {call.client}
  BY DEF Lose, storeVars
<1>2. /\ IsSeq(calls)
      /\ \A c, a : (\E j \in 1 .. Len(w.calls) : Tells(w.calls[j], c, a)) =>
           Tells(call, c, a) \/ \E i \in 1 .. Len(calls) : Tells(calls[i], c, a)
      /\ \A c \in Clients \ upset' : Harmless(calls, c)
  BY <1>1, CallsLeft
<1>3. \A c \in registered \ upset' : \A a : Corrects(w, c, a) => \E i \in 1 .. Len(calls) : Tells(calls[i], c, a)
  BY <1>1, <1>2 DEF Corrects, Tells
<1>4. DOMAIN copies' = Clients /\ upset \subseteq upset'
  BY <1>1 DEF SyncInv, RegistrationsOK, SavedOK, StopsOK
<1> HIDE DEF calls, call
<1>5. \A c \in registered \ upset' : \A a : Wrong(copies'[c], a) =>
           \/ Wrong(copies[c], a) /\ ~Corrects(w, c, a)
           \/ \E i \in 1 .. Len(calls) : Tells(calls[i], c, a)
  BY <1>1, <1>3
<1> QED
  BY <1>1, <1>2, <1>4, <1>5, CallsGoOn

-----------------------------------------------------------------------------
(* Changes of the catalogue and of the registrations                       *)

\* The addresses set change and upset the clients that are still being told of
\* them; the operations new tell every client what became wrong.
LEMMA ChangeKeepsSync ==
  ASSUME SyncInv, UNCHANGED <<semantics, registered, fileRegs, stops, copies>>,
         NEW set, Disturbed(set), \A a : a \notin set => (a \in devices' <=> a \in devices),
         NEW new, work' = work \cup new,
         \A v \in new : WorkOK(v),
         \A v \in new, c \in Clients : Fair(v, c)',
         \A c \in registered, a \in set : Wrong(copies[c], a)' => \E v \in new : Corrects(v, c, a)'
  PROVE  SyncInv'
<1>1. RegistrationsOK'
  BY DEF SyncInv, RegistrationsOK, SavedOK, StopsOK
<1>2. \A v \in work' : v \in work \/ v \in new
  OBVIOUS
<1>3. (\A v \in work : WorkOK(v))'
  BY <1>2 DEF SyncInv, WorkOK
<1>4. \A c \in Clients \ upset' : c \notin ToldOf(set) /\ c \notin upset
  BY DEF Disturbed
<1>5. (\A c \in Clients \ upset, v \in work : Fair(v, c))'
  <2> SUFFICES ASSUME NEW c \in Clients \ upset', NEW v \in work' PROVE Fair(v, c)'
    OBVIOUS
  <2>1. CASE v \in work
    <3>1. Fair(v, c)
      BY <1>4, <2>1 DEF SyncInv
    <3>2. ASSUME v.stage = "push" PROVE Harmless(v.calls, c)'
      <4>1. Harmless(v.calls, c)
        BY <3>1, <3>2 DEF Fair
      <4> SUFFICES ASSUME NEW i \in 1 .. Len(v.calls), v.calls[i].client = c,
                          NEW a \in v.calls[i].list
                   PROVE  \E j \in i .. Len(v.calls) : Tells(v.calls[j], c, a)'
        BY DEF Harmless
      <4>2. a \notin set
        BY <1>4, <2>1, <3>2 DEF ToldOf
      <4>3. PICK j \in i .. Len(v.calls) : Tells(v.calls[j], c, a)
        BY <4>1 DEF Harmless
      <4> QED
        BY <4>2, <4>3 DEF Tells
    <3>3. ASSUME v.stage = "loaded", c \in registered PROVE v.list \subseteq devices'
      <4>1. v.list \subseteq devices
        BY <3>1, <3>3 DEF Fair
      <4>2. v.list \cap set = {}
        BY <1>4, <2>1, <3>3 DEF ToldOf
      <4> QED
        BY <4>1, <4>2
    <3> QED
      BY <3>2, <3>3 DEF Fair
  <2>2. CASE v \in new
    BY <2>2
  <2> QED
    BY <1>2, <2>1, <2>2
<1>6. (\A c \in registered \ upset : InTouch(c))'
  <2> SUFFICES ASSUME NEW c \in registered \ upset', NEW a, Wrong(copies[c], a)'
               PROVE  \E v \in work' : Corrects(v, c, a)'
    BY DEF InTouch
  <2>1. CASE a \in set
    BY <2>1
  <2>2. CASE a \notin set
    <3>1. c \in registered \ upset
      BY <1>4 DEF SyncInv, RegistrationsOK
    <3>2. Wrong(copies[c], a)
      BY <2>2 DEF Wrong
    <3>3. PICK v \in work : Corrects(v, c, a)
      BY <3>1, <3>2 DEF SyncInv, InTouch
    <3>4. Wrong(v.known, a)' <=> Wrong(v.known, a)
      BY <2>2 DEF Wrong
    <3>5. \A call : Tells(call, c, a)' <=> Tells(call, c, a)
      BY <2>2 DEF Tells
    <3>6. Corrects(v, c, a)'
      BY <3>3, <3>4, <3>5 DEF Corrects
    <3> QED
      BY <3>6
  <2> QED
    BY <2>1, <2>2
<1> QED
  BY <1>1, <1>3, <1>5, <1>6 DEF SyncInv

\* AddDevices loads devices that it announces later.
LEMMA AddKeepsSync ==
  ASSUME SyncInv, UNCHANGED <<fileRegs, stops>>, NEW types, AddDevices(types)
  PROVE  SyncInv'
<1> DEFINE added == UNION {AddressesOf[t] : t \in types \ active}
<1>0. PICK v : v = Loading(NewWork, added)
  OBVIOUS
<1> DEFINE new == {v}
<1>1. /\ work' = work \cup new
      /\ devices' = devices \cup added
      /\ Disturbed(added) /\ UNCHANGED <<semantics, registered, copies>>
  BY <1>0 DEF AddDevices, Start
<1>2. v.stage = "loaded" /\ v.list = added
  BY <1>0 DEF Loading
<1> HIDE DEF added
<1>3. \A x \in new : WorkOK(x)
  BY <1>2 DEF WorkOK
<1>4. \A x \in new, c \in Clients : Fair(x, c)'
  BY <1>1, <1>2 DEF Fair
<1>5. \A c \in registered, a \in added : \E x \in new : Corrects(x, c, a)'
  BY <1>2 DEF Corrects
<1>6. \A a : a \notin added => (a \in devices' <=> a \in devices)
  BY <1>1
<1> HIDE DEF new
<1> QED
  BY <1>1, <1>3, <1>4, <1>5, <1>6, ChangeKeepsSync

\* DeleteDevice and RemoveDevices tell every client what goes.
LEMMA DropKeepsSync ==
  ASSUME SyncInv, UNCHANGED <<fileRegs, stops>>, NEW going, NEW types, Drop(going, types)
  PROVE  SyncInv'
<1>1. /\ devices' = devices \ going
      /\ \A a : a \notin going => (a \in devices' <=> a \in devices)
      /\ Disturbed(going) /\ UNCHANGED <<semantics, registered, copies>>
  BY DEF Drop
<1>2. CASE registered = {}
  <2> DEFINE new == {}
  <2>1. work' = work \cup new
    BY <1>2 DEF Drop
  <2>2. /\ \A x \in new : WorkOK(x)
        /\ \A x \in new, c \in Clients : Fair(x, c)'
    OBVIOUS
  <2>3. \A c \in registered, a \in going : Wrong(copies[c], a)' => \E x \in new : Corrects(x, c, a)'
    BY <1>2
  <2> HIDE DEF new
  <2> QED
    BY <1>1, <2>1, <2>2, <2>3, ChangeKeepsSync
<1>3. CASE registered # {}
  <2>1. PICK calls \in Broadcasts("deleteDevices", going) : Start(Calling(NewWork, calls))
    BY <1>3 DEF Drop
  <2>0. PICK v : v = Calling(NewWork, calls)
    OBVIOUS
  <2> DEFINE new == {v}
  <2>2. /\ IsSeq(calls)
        /\ \A i \in 1 .. Len(calls) :
             calls[i].method = "deleteDevices" /\ calls[i].list = going /\ calls[i].client \in registered
        /\ \A c \in registered : \E i \in 1 .. Len(calls) : calls[i].client = c
    BY <2>1, CallsToAll DEF SyncInv
  <2>3. work' = work \cup new /\ v.stage = "push" /\ v.calls = calls
    BY <2>0, <2>1 DEF Start, Calling
  <2>4. calls # <<>>
    BY <1>3, <2>2
  <2>5. \A x \in new : WorkOK(x)
    BY <2>2, <2>3, <2>4 DEF WorkOK
  <2>6. \A x \in new, c \in Clients : Fair(x, c)'
    <3> SUFFICES ASSUME NEW c \in Clients, NEW i \in 1 .. Len(calls), calls[i].client = c,
                        NEW a \in calls[i].list
                 PROVE  \E j \in i .. Len(calls) : Tells(calls[j], c, a)'
      BY <2>3 DEF Fair, Harmless
    <3>1. Tells(calls[i], c, a)'
      BY <1>1, <2>2 DEF Tells
    <3>2. i \in i .. Len(calls)
      BY <2>2 DEF IsSeq
    <3> QED
      BY <3>1, <3>2
  <2>7. \A c \in registered, a \in going : Wrong(copies[c], a)' => \E x \in new : Corrects(x, c, a)'
    <3> SUFFICES ASSUME NEW c \in registered, NEW a \in going
                 PROVE  Corrects(v, c, a)'
      OBVIOUS
    <3>1. a \notin devices'
      BY <1>1
    <3>2. PICK i \in 1 .. Len(calls) : calls[i].client = c
      BY <2>2
    <3>3. Tells(calls[i], c, a)'
      BY <2>2, <3>1, <3>2 DEF Tells
    <3> QED
      BY <2>3, <3>3 DEF Corrects
  <2> HIDE DEF new
  <2> QED
    BY <1>1, <2>3, <2>5, <2>6, <2>7, ChangeKeepsSync
<1> QED
  BY <1>2, <1>3

\* Clients are asked what they know; those that were not in touch before, too.
LEMMA AskingKeepsSync ==
  ASSUME SyncInv, UNCHANGED <<devices, semantics, copies>>, RegistrationsOK',
         NEW asks, work' = work \cup asks,
         \A v \in asks : v.stage = "ask",
         \A c \in Clients \ upset', w \in work : Fair(w, c)',
         \A c \in registered' \ upset' :
           c \in registered \ upset \/ \E v \in asks : v.client = c
  PROVE  SyncInv'
<1>1. (\A v \in work : WorkOK(v))'
  BY DEF SyncInv, WorkOK
<1>2. (\A c \in Clients \ upset, v \in work : Fair(v, c))'
  BY DEF Fair
<1>3. (\A c \in registered \ upset : InTouch(c))'
  <2> SUFFICES ASSUME NEW c \in registered' \ upset', NEW a, Wrong(copies[c], a)'
               PROVE  \E v \in work' : Corrects(v, c, a)'
    BY DEF InTouch
  <2>1. CASE c \in registered \ upset
    <3>1. Wrong(copies[c], a)
      BY DEF Wrong
    <3>2. PICK v \in work : Corrects(v, c, a)
      BY <2>1, <3>1 DEF SyncInv, InTouch
    <3>3. Corrects(v, c, a)'
      BY <3>2, SameMeaning
    <3> QED
      BY <3>3
  <2>2. CASE \E v \in asks : v.client = c
    BY <2>2 DEF Corrects
  <2> QED
    BY <2>1, <2>2
<1> QED
  BY <1>1, <1>2, <1>3 DEF SyncInv

\* What a client that is not misled will be told holds.
LEMMA NotMisled ==
  ASSUME UNCHANGED <<devices, semantics>>, NEW c \in Clients, c \notin Misled, NEW w \in work
  PROVE  Fair(w, c)'
<1>1. /\ w.stage = "push" => Harmless(w.calls, c)
      /\ w.stage = "loaded" => w.list \subseteq devices
  BY DEF Misled
<1> QED
  BY <1>1, SameMeaning DEF Fair

\* Init of a client.
LEMMA RegisterKeepsSync ==
  ASSUME SyncInv, UNCHANGED <<fileRegs, stops>>, NEW c \in Clients, Register(c)
  PROVE  SyncInv'
<1>0. PICK v : v = Asking(NewWork, c)
  OBVIOUS
<1> DEFINE asks == {v}
<1>1. /\ work' = work \cup asks
      /\ registered' = registered \cup {c}
      /\ upset' = UpsetByInit(c)
      /\ UNCHANGED <<devices, semantics, copies>>
  BY <1>0 DEF Register, Start, storeVars
<1>2. v.stage = "ask" /\ v.client = c
  BY <1>0 DEF Asking
<1>3. RegistrationsOK'
  <2>1. IsFiniteSet(registered \cup {c})
    BY FS_AddElement DEF SyncInv, RegistrationsOK, SavedOK, StopsOK
  <2> QED
    BY <1>1, <2>1 DEF SyncInv, RegistrationsOK, SavedOK, StopsOK
<1>4. ASSUME NEW d \in Clients \ upset', NEW w \in work
      PROVE  Fair(w, d)'
  <2>1. CASE d # c
    <3>1. d \notin upset
      BY <1>1, <1>4, <2>1 DEF UpsetByInit
    <3>2. Fair(w, d)
      BY <3>1 DEF SyncInv
    <3> QED
      BY <1>1, <2>1, <3>2, SameMeaning DEF Fair
  <2>2. CASE d = c
    <3>1. d \notin Misled
      BY <1>1, <1>4, <2>2 DEF UpsetByInit
    <3> QED
      BY <1>1, <1>4, <3>1, NotMisled
  <2> QED
    BY <2>1, <2>2
<1>5. \A d \in registered' \ upset' :
        d \in registered \ upset \/ \E x \in asks : x.client = d
  BY <1>1, <1>2 DEF UpsetByInit
<1>6. \A x \in asks : x.stage = "ask"
  BY <1>2
<1> HIDE DEF asks
<1> QED
  BY <1>1, <1>3, <1>4, <1>5, <1>6, AskingKeepsSync

\* ReannounceClients.
LEMMA ReannounceKeepsSync ==
  ASSUME SyncInv, UNCHANGED <<fileRegs, stops>>, ReannounceClients
  PROVE  SyncInv'
<1>0. PICK asks : asks = {Asking(started + i, SetToSeq(registered)[i]) :
                            i \in 1 .. Len(SetToSeq(registered))}
  OBVIOUS
<1>1. /\ work' = work \cup asks
      /\ upset' = upset \ (registered \ Misled)
      /\ UNCHANGED <<devices, semantics, copies, registered>>
  BY <1>0 DEF ReannounceClients, storeVars
<1>2. /\ \A v \in asks : v.stage = "ask"
      /\ \A c \in registered : \E v \in asks : v.client = c
  <2>1. \A v \in asks : v.stage = "ask"
    BY <1>0 DEF Asking
  <2>2. ASSUME NEW c \in registered PROVE \E v \in asks : v.client = c
    <3>1. PICK i \in 1 .. Len(SetToSeq(registered)) : SetToSeq(registered)[i] = c
      BY OrderOfAll DEF SyncInv
    <3>2. PICK v : v = Asking(started + i, SetToSeq(registered)[i])
      OBVIOUS
    <3>3. v \in asks
      BY <1>0, <3>2
    <3>4. v.client = c
      BY <3>1, <3>2 DEF Asking
    <3> QED
      BY <3>3, <3>4
  <2> QED
    BY <2>1, <2>2
<1>3. RegistrationsOK'
  BY <1>1 DEF SyncInv, RegistrationsOK, SavedOK, StopsOK
<1>4. ASSUME NEW c \in Clients \ upset', NEW w \in work
      PROVE  Fair(w, c)'
  <2>1. CASE c \notin upset
    <3>1. Fair(w, c)
      BY <2>1 DEF SyncInv
    <3> QED
      BY <1>1, <3>1, SameMeaning DEF Fair
  <2>2. CASE c \in upset
    <3>1. c \notin Misled
      BY <1>1, <1>4, <2>2
    <3> QED
      BY <1>1, <1>4, <3>1, NotMisled
  <2> QED
    BY <2>1, <2>2
<1>5. \A c \in registered' \ upset' :
        c \in registered \ upset \/ \E v \in asks : v.client = c
  BY <1>1, <1>2
<1> QED
  BY <1>1, <1>2, <1>3, <1>4, <1>5, AskingKeepsSync

\* Clients go, or nothing of the catalogue changes; the file of registrations
\* may be written.
LEMMA FewerKeepsSync ==
  ASSUME SyncInv, UNCHANGED <<devices, semantics, copies, work, upset>>,
         registered' \subseteq registered, UNCHANGED <<fileRegs, stops>> \/ SavedOK'
  PROVE  SyncInv'
<1>1. RegistrationsOK'
  <2>1. IsFiniteSet(registered')
    BY FS_Subset DEF SyncInv, RegistrationsOK, SavedOK, StopsOK
  <2> QED
    BY <2>1 DEF SyncInv, RegistrationsOK, SavedOK, StopsOK
<1>2. (\A v \in work : WorkOK(v))'
  BY DEF SyncInv, WorkOK
<1>3. (\A c \in Clients \ upset, v \in work : Fair(v, c))'
  BY SameMeaning DEF SyncInv, Fair
<1>4. (\A c \in registered \ upset : InTouch(c))'
  <2> SUFFICES ASSUME NEW c \in registered' \ upset', NEW a, Wrong(copies[c], a)'
               PROVE  \E v \in work' : Corrects(v, c, a)'
    BY DEF InTouch
  <2>1. Wrong(copies[c], a)
    BY DEF Wrong
  <2>2. PICK v \in work : Corrects(v, c, a)
    BY <2>1 DEF SyncInv, InTouch
  <2> QED
    BY <2>2, SameMeaning
<1> QED
  BY <1>1, <1>2, <1>3, <1>4 DEF SyncInv

\* The next process asks nobody.
LEMMA BootKeepsSync ==
  ASSUME SyncInv, Boot
  PROVE  SyncInv'
<1>1. /\ registered' \in {fileRegs, {}} /\ work' = {} /\ registered' \subseteq upset'
      /\ UNCHANGED <<copies, fileRegs>> /\ stops' = [k \in Stops |-> NoStop]
  BY DEF Boot, CatalogueBoot
<1>2. IsFiniteSet({})
  BY FS_EmptySet
<1>3. RegistrationsOK'
  BY <1>1, <1>2 DEF SyncInv, RegistrationsOK, SavedOK, StopsOK, NoStop, IsStop
<1> QED
  BY <1>1, <1>3 DEF SyncInv

-----------------------------------------------------------------------------
(* Every step of the CCU                                                   *)

\* Nothing that clients are told or tell is touched.
Untouched ==
  UNCHANGED <<devices, semantics, copies, work, upset, registered>> /\ SavedOK'

\* A write of the paramsets leaves the catalogue alone.
LEMMA StoreStepsKeepDevices ==
  ASSUME \/ \E a, kind : GetParamset(a, kind)
         \/ \E a, kind, set, force : PutParamset(a, kind, set, force)
         \/ \E a, p, v, force : SetValue(a, p, v, force)
         \/ \E a, flag : Unreach(a, flag)
         \/ UnreachWrite
         \/ \E a, p, on : Suppress(a, p, on)
         \/ \E s, r : AddLink(s, r) \/ RemoveLink(s, r)
         \/ \E s, r, name : SetLinkInfo(s, r, name) \/ PutLinkParamset(s, r, name)
         \/ \E a, field, v : SetMetadata(a, field, v)
  PROVE  UNCHANGED devices
<1>1. \A a, kind, set, force : PutParamset(a, kind, set, force) => UNCHANGED devices
  <2>1. \A a, write : PutMasterModel(a, write) => UNCHANGED devices
    BY DEF PutMasterModel
  <2>2. \A a, kind, write, force : PutEach(a, kind, write, force) => UNCHANGED devices
    <3> SUFFICES ASSUME NEW a, NEW kind, NEW write, NEW force, PutEach(a, kind, write, force)
                 PROVE  UNCHANGED devices
      OBVIOUS
    <3>1. \E order \in SetToSeqs(DOMAIN write) : UNCHANGED devices
      BY DEF PutEach
    <3> QED
      BY <3>1
  <2> QED
    BY <2>1, <2>2 DEF PutParamset
<1>2. \A a, p, v, force : SetValue(a, p, v, force) => UNCHANGED devices
  BY <1>1 DEF SetValue
<1> QED
  BY <1>1, <1>2 DEF GetParamset, Unreach, UnreachWrite, Suppress, AddLink, RemoveLink,
     SetLinkInfo, PutLinkParamset, SetMetadata

LEMMA WebKeepsSync ==
  ASSUME SyncInv, NEW s, Handle(s)
  PROVE  SyncInv'
<1>1. UNCHANGED <<fileRegs, stops>>
  BY HandlersOnlyCall DEF serverVars
<1>2. CASE UNCHANGED <<devices, catVars>>
  BY <1>1, <1>2, FewerKeepsSync DEF catVars
<1>3. CASE InterfaceHandler(s)
  <2> DEFINE arg == CallOf(s).arg
  <2>1. CASE interfaceInit(s, arg)
    <3>1. PICK c \in Clients : Register(c) \/ Unregister(c)
      BY <2>1 DEF interfaceInit
    <3>2. CASE Register(c)
      BY <1>1, <3>2, RegisterKeepsSync
    <3>3. CASE Unregister(c)
      BY <1>1, <3>3, FewerKeepsSync DEF Unregister, storeVars
    <3> QED
      BY <3>1, <3>2, <3>3
  <2>2. CASE /\ \/ setValue(s, arg) \/ getParamset(s, arg) \/ putParamset(s, arg)
                \/ setLinkInfo(s, arg) \/ suppressServiceMessages(s, arg)
             /\ UNCHANGED catVars
    <3>1. UNCHANGED devices
      BY <2>2, StoreStepsKeepDevices DEF setValue, getParamset, putParamset, setLinkInfo, suppressServiceMessages
    <3> QED
      BY <1>2, <2>2, <3>1
  <2> QED
    BY <1>3, <2>1, <2>2 DEF InterfaceHandler
<1>4. CASE ~InterfaceHandler(s)
  <2>1. UNCHANGED rpcVars
    BY <1>4 DEF Handle, SessionHandler, StateHandler, QuietHandler, Looks, Acts, DownloadStatus,
       DownloadData, ListAllDetail
  <2> QED
    BY <1>2, <2>1 DEF rpcVars, storeVars
<1> QED
  BY <1>3, <1>4

LEMMA CatalogueKeepsSync ==
  ASSUME SyncInv, CatalogueCall \/ CatalogueRun
  PROVE  SyncInv'
<1>1. UNCHANGED <<fileRegs, stops>>
  BY DEF CatalogueCall, CatalogueRun, serverVars
<1>2. CASE CatalogueRun
  <2>1. PICK w \in work : AddTell(w) \/ Ask(w) \/ AskFails(w) \/ Diff(w) \/ Deliver(w) \/ Lose(w)
    BY <1>2 DEF CatalogueRun, WorkStep
  <2> QED
    BY <1>1, <2>1, AddTellKeepsSync, AskKeepsSync, DiffKeepsSync, DeliverKeepsSync, LoseKeepsSync
<1>3. CASE CatalogueCall
  <2>1. CASE \E c \in Clients : Register(c)
    BY <1>1, <2>1, RegisterKeepsSync
  <2>2. CASE \E c \in Clients : Unregister(c)
    BY <1>1, <2>2, FewerKeepsSync DEF Unregister, storeVars
  <2>3. CASE \E types : AddDevices(types)
    BY <1>1, <2>3, AddKeepsSync
  <2>4. CASE \E going, types : Drop(going, types)
    BY <1>1, <2>4, DropKeepsSync
  <2>5. (\E types : RemoveDevices(types)) \/ (\E a : DeleteDevice(a)) => \E going, types : Drop(going, types)
    BY DEF RemoveDevices, DeleteDevice
  <2> QED
    BY <1>3, <2>1, <2>2, <2>3, <2>4, <2>5 DEF CatalogueCall
<1> QED
  BY <1>2, <1>3

\* A stop writes the registrations, or none of them.
LEMMA StopKeepsRegs ==
  ASSUME RegistrationsOK, NEW k \in Stops, Stop(k) \/ StopStep(k)
  PROVE  SavedOK'
<1>1. IsFiniteSet({})
  BY FS_EmptySet
<1>2. /\ fileRegs' \in {fileRegs, stops[k].regs, {}}
      /\ StopsOK'
      /\ \A j \in Stops : stops'[j].regs \in {stops[j].regs, registered, {}}
  BY StopChanges, StopWrites DEF RegistrationsOK, SavedOK
<1> QED
  BY <1>1, <1>2 DEF RegistrationsOK, SavedOK

LEMMA LifeKeepsSync ==
  ASSUME SyncInv, LifeCall \/ LifeRun
  PROVE  SyncInv'
<1>1. CASE Boot
  BY <1>1, BootKeepsSync
<1>2. CASE ResumeRest
  <2>1. UNCHANGED <<fileRegs, stops>>
    BY <1>2 DEF ResumeRest
  <2>2. CASE UNCHANGED <<storeVars, catVars>>
    BY <2>1, <2>2, FewerKeepsSync DEF storeVars, catVars
  <2>3. CASE ForgetClients
    BY <2>1, <2>3, FewerKeepsSync DEF ForgetClients, storeVars
  <2>4. CASE ReannounceClients
    BY <2>1, <2>4, ReannounceKeepsSync
  <2> QED
    BY <1>2, <2>2, <2>3, <2>4 DEF ResumeRest
<1>3. CASE UNCHANGED <<storeVars, catVars>> /\ ~ResumeRest
  <2>1. CASE UNCHANGED <<fileRegs, stops>>
    BY <1>3, <2>1, FewerKeepsSync DEF storeVars, catVars, SyncInv, RegistrationsOK, SavedOK, StopsOK
  <2>2. ASSUME NEW k \in Stops, Stop(k) \/ StopStep(k) PROVE SyncInv'
    <3>1. SavedOK'
      BY <2>2, StopKeepsRegs DEF SyncInv
    <3> QED
      BY <1>3, <3>1, FewerKeepsSync DEF storeVars, catVars
  <2> QED
    BY <1>1, <1>3, <2>1, <2>2 DEF LifeCall, LifeRun, StartServer, Suspend, Resume, StartTLS, StopTLS,
       Occupy, SetBINRPC, SuspendClose, SuspendBin
<1> QED
  BY <1>1, <1>2, <1>3 DEF LifeCall, LifeRun

LEMMA OthersKeepSync ==
  ASSUME SyncInv, [Next]_ccuVars, ~(CatalogueCall \/ CatalogueRun \/ LifeCall \/ LifeRun)
  PROVE  SyncInv'
<1>1. CASE WebRun
  BY <1>1, WebKeepsSync DEF WebRun
<1>2. CASE ~WebRun
  <2>1. UNCHANGED <<serverVars, catVars>>
    BY <1>2 DEF Next, StoreCall, LinkCall, StoreRun, FaultCall, FaultRun, WebCall, Admission,
       StateCall, StateRun, VirtualCall, VirtualRun, InjectFault, ClearFaults, Intercept, DelayEnds, LetGo,
       ccuVars, lifeVars
  <2>2. UNCHANGED devices
    <3>1. CASE StoreCall \/ LinkCall \/ StoreRun
      BY <3>1, StoreStepsKeepDevices DEF StoreCall, LinkCall, StoreRun
    <3>2. CASE ~(StoreCall \/ LinkCall \/ StoreRun)
      BY <1>2, <3>2 DEF Next, FaultCall, FaultRun, WebCall, Admission, StateCall, StateRun,
         VirtualCall, VirtualRun, ccuVars, storeVars
    <3> QED
      BY <3>1, <3>2
  <2> QED
    BY <2>1, <2>2, FewerKeepsSync DEF serverVars, catVars
<1> QED
  BY <1>1, <1>2

LEMMA SyncStarts ==
  ASSUME Init
  PROVE  SyncInv
<1>1. registered = {} /\ work = {} /\ fileRegs = {} /\ DOMAIN copies = Clients
      /\ stops = [k \in Stops |-> NoStop]
  BY DEF Init, CatalogueInit, LifeInit
<1> QED
  BY <1>1, FS_EmptySet DEF SyncInv, RegistrationsOK, SavedOK, StopsOK, NoStop, IsStop

LEMMA EveryStepKeepsSync ==
  ASSUME SyncInv, [Next]_ccuVars
  PROVE  SyncInv'
BY CatalogueKeepsSync, LifeKeepsSync, OthersKeepSync

\* A client that nothing corrects has nothing wrong.
LEMMA QuietClients ==
  ASSUME SyncInv, NEW c \in registered \ (upset \cup Busy), NEW a
  PROVE  ~Wrong(copies[c], a)
<1>1. ASSUME NEW w \in work, Corrects(w, c, a)
      PROVE  FALSE
  <2>1. c \in Clients /\ WorkOK(w)
    BY DEF SyncInv, RegistrationsOK
  <2>2. CASE w.stage = "push"
    BY <1>1, <2>1, <2>2 DEF Busy, Corrects, Tells
  <2>3. CASE w.stage \in {"ask", "asked"}
    BY <1>1, <2>1, <2>3 DEF Busy, Corrects
  <2>4. CASE w.stage = "loaded"
    BY <2>1, <2>4 DEF Busy
  <2> QED
    BY <2>1, <2>2, <2>3, <2>4 DEF WorkOK
<1> QED
  BY <1>1 DEF SyncInv, InTouch

\* A client that nothing is on its way to knows exactly the devices there are, for
\* every number of clients and devices, however additions, removals, inits and
\* diffs cross each other, but for the clients in upset: those that lost a call,
\* were restored from the file, or had an address change while a call about
\* it was on its way, and no init has made that good (Init, askDevices,
\* reconcileDevices, pushDevices, AddDevices, DeleteDevice, RemoveDevices).
THEOREM ClientsStayInSync == Spec => []ClientInSync
<1>1. Init => SyncInv
  BY SyncStarts
<1>2. SyncInv /\ [Next]_ccuVars => SyncInv'
  BY EveryStepKeepsSync
<1>3. SyncInv => ClientInSync
  <2> SUFFICES ASSUME SyncInv, NEW c \in registered \ (upset \cup Busy)
               PROVE  /\ DOMAIN copies[c] = devices
                      /\ semantics => \A a \in devices : copies[c][a] = Current
    BY DEF ClientInSync
  <2>1. \A a : ~Wrong(copies[c], a)
    BY QuietClients
  <2> QED
    BY <2>1 DEF Wrong
<1> QED
  BY <1>1, <1>2, <1>3, PTL DEF Spec

-----------------------------------------------------------------------------
(* Values that a write model takes back                                    *)

\* What the write model of a channel makes of a value.
TakenBack(hmip, v, desc) == IF hmip THEN HmipStored(v, desc) ELSE BidcosStored(v, desc)

Settled(hmip, v, desc) ==
  /\ v \in Value
  /\ TakenBack(hmip, v, desc) # NoValue
  /\ SameValue(TakenBack(hmip, v, desc), v)

IsDescription(desc) ==
  /\ {desc.min, desc.max} \subseteq Int \cup {NoValue}
  /\ NoValue \in {desc.min, desc.max} \/ desc.min <= desc.max
  /\ desc.labels \in Seq(STRING)

LEMMA Values ==
  /\ \A n \in Int : Integer(n) \in Value /\ Real(n) \in Value
  /\ \A b \in BOOLEAN : Bool(b) \in Value
  /\ \A v \in Value : /\ v.type \in {"bool", "int", "real", "fraction", "string"} \cup Texts
                      /\ v.type # "string" => v.of \in Int
  /\ NoValue \notin Value /\ NoValue \notin Int
<1>1. NoValue \notin Value /\ NoValue \notin Int
  BY ValueAssumption
<1>2. \A n \in Int : Integer(n) \in Value /\ Real(n) \in Value
  BY DEF Value, Integer, Real
<1>3. \A b \in BOOLEAN : Bool(b) \in Value
  BY DEF Value, Bool
<1>4. \A v \in Value : /\ v.type \in {"bool", "int", "real", "fraction", "string"} \cup Texts
                       /\ v.type # "string" => v.of \in Int
  BY DEF Value
<1> QED
  BY <1>1, <1>2, <1>3, <1>4

\* What toFloat makes of a value.
LEMMA Parsed ==
  /\ \A v \in Value : /\ Whole(v) \in Int /\ Number(v) \in Int
                      /\ Half(v) => v.of \in Int
                      /\ v.type \in {"int", "real", "fraction"} =>
                           Whole(v) = v.of /\ (Half(v) <=> v.type = "fraction")
  /\ \A n : /\ Integer(n).type = "int" /\ Integer(n).of = n /\ Whole(Integer(n)) = n
            /\ Number(Integer(n)) = n /\ ~Half(Integer(n))
            /\ Real(n).type = "real" /\ Real(n).of = n /\ Whole(Real(n)) = n
            /\ Number(Real(n)) = n /\ ~Half(Real(n))
<1>1. \A v \in Value : Half(v) => v.of \in Int
  BY Values DEF Half
<1>2. \A v \in Value : Whole(v) \in Int
  <2> SUFFICES ASSUME NEW v \in Value PROVE Whole(v) \in Int
    OBVIOUS
  <2>1. CASE v.type \in {"string", "boolText"}
    BY <2>1 DEF Whole
  <2>2. CASE v.type \notin {"string", "boolText"}
    BY <2>2, Values DEF Whole
  <2> QED
    BY <2>1, <2>2
<1>3. \A v \in Value : Number(v) \in Int
  BY <1>1, <1>2 DEF Number
<1>4. \A v \in Value : v.type \in {"int", "real", "fraction"} =>
        Whole(v) = v.of /\ (Half(v) <=> v.type = "fraction")
  <2> SUFFICES ASSUME NEW v, v.type \in {"int", "real", "fraction"}
               PROVE  Whole(v) = v.of /\ (Half(v) <=> v.type = "fraction")
    OBVIOUS
  <2> QED
    BY DEF Whole, Half
<1>5. \A n : Integer(n).type = "int" /\ Integer(n).of = n /\ Real(n).type = "real" /\ Real(n).of = n
  BY DEF Integer, Real
<1>6. \A n : ~Half(Integer(n)) /\ ~Half(Real(n)) /\ Whole(Integer(n)) = n /\ Whole(Real(n)) = n
  BY <1>5 DEF Half, Whole
<1>7. \A n : Number(Integer(n)) = n /\ Number(Real(n)) = n
  BY <1>6 DEF Number
<1> QED
  BY <1>1, <1>2, <1>3, <1>4, <1>5, <1>6, <1>7

\* A label that is listed has a number that is in the list.
LEMMA LabelListed ==
  ASSUME NEW desc, desc.labels \in Seq(STRING), NEW label, LabelIndexes(label, desc) # {}
  PROVE  LabelIndex(label, desc) \in 0 .. Len(desc.labels) - 1
<1> DEFINE S == LabelIndexes(label, desc)
           k == CHOOSE i \in S : \A j \in S : i <= j
<1>1. S \subseteq 1 .. Len(desc.labels) /\ Len(desc.labels) \in Nat /\ S # {}
  BY DEF LabelIndexes
<1>2. LabelIndex(label, desc) = k - 1
  BY DEF LabelIndex
<1> HIDE DEF S
<1>3. S \in SUBSET Nat
  BY <1>1
<1>4. \E i \in S : \A j \in S : i <= j
  BY <1>1, <1>3, LeastNumber
<1>5. k \in S
  BY <1>4
<1> HIDE DEF k
<1> QED
  BY <1>1, <1>2, <1>5

\* hmipserver takes back what it stores.
LEMMA HmipSettles ==
  ASSUME NEW desc, IsDescription(desc), NEW v \in Value
  PROVE  Settled(TRUE, HmipStored(v, desc), desc)
<1> DEFINE w == HmipStored(v, desc)
<1>1. w \in Value /\ HmipStored(w, desc) = w
  <2>1. CASE desc.type \in {"BOOL", "ACTION"}
    BY <2>1, Values DEF HmipStored, Bool, IsIntegral
  <2>2. CASE desc.type = "INTEGER"
    BY <2>2, Values DEF HmipStored, Integer, IsIntegral
  <2>3. CASE desc.type = "ENUM"
    <3>1. CASE InValueList(v, desc)
      <4>1. PICK n \in 0 .. Len(desc.labels) - 1 : n = LabelIndex(v.of, desc)
        BY <3>1, LabelListed DEF IsDescription, InValueList
      <4>2. w = Integer(n)
        BY <2>3, <3>1, <4>1, Values DEF HmipStored, InValueList, IsIntegral
      <4> HIDE DEF w
      <4> QED
        BY <2>3, <4>2, Values DEF HmipStored, InValueList, Integer, IsIntegral, IsDescription
    <3>2. CASE ~InValueList(v, desc)
      BY <2>3, <3>2, Values DEF HmipStored, InValueList, Integer, IsIntegral
    <3> QED
      BY <3>1, <3>2
  <2>4. CASE desc.type \notin {"BOOL", "ACTION", "INTEGER", "ENUM"}
    BY <2>4, Values DEF HmipStored
  <2> QED
    BY <2>1, <2>2, <2>3, <2>4
<1> HIDE DEF w
<1> QED
  BY <1>1, Values DEF Settled, TakenBack, SameValue, w

\* rfd takes back what it stores.
LEMMA ClampSettles ==
  ASSUME NEW d, {d.min, d.max} \subseteq Int \cup {NoValue},
         NoValue \in {d.min, d.max} \/ d.min <= d.max,
         NEW v \in Value, v.type \in {"int", "real", "fraction"}
  PROVE  LET w == ClampTo(v, d) IN
         /\ w \in Value /\ w.type \in {v.type, "real"}
         /\ ClampTo(w, d) = w
         /\ ClampTo(Integer(w.of), d).of = w.of
<1> DEFINE u == AtLeast(v, d.min)
           w == ClampTo(v, d)
<1>1. u \in Value /\ u.type \in {v.type, "real"} /\ u.of \in Int /\ ~Below(u, d.min)
  BY Values, Parsed DEF AtLeast, Below
<1>2. w = AtMost(u, d.max)
  BY DEF ClampTo
<1> HIDE DEF u, w
<1>3. w \in Value /\ w.type \in {v.type, "real"} /\ w.of \in Int
  BY <1>1, <1>2, Values, Parsed DEF AtMost, Above
<1>4. ~Above(w, d.max) /\ ~Below(w, d.min)
  BY <1>1, <1>2, Values, Parsed DEF AtMost, Above, Below
<1>5. \A x : ~Above(x, d.max) /\ ~Below(x, d.min) => ClampTo(x, d) = x
  BY DEF ClampTo, AtLeast, AtMost
<1>6. ~Above(Integer(w.of), d.max) /\ ~Below(Integer(w.of), d.min)
  BY <1>3, <1>4, Parsed DEF Above, Below
<1> QED
  BY <1>3, <1>4, <1>5, <1>6, Parsed DEF w

\* The bounds of a description are ordered, and so are those of its list.
LEMMA LimitsOrdered ==
  ASSUME NEW desc, IsDescription(desc)
  PROVE  /\ {Limits(desc).min, Limits(desc).max} \subseteq Int \cup {NoValue}
         /\ NoValue \in {Limits(desc).min, Limits(desc).max} \/ Limits(desc).min <= Limits(desc).max
BY DEF IsDescription, Limits

LEMMA BidcosSettles ==
  ASSUME NEW desc, IsDescription(desc), NEW v \in Value, BidcosStored(v, desc) # NoValue
  PROVE  Settled(FALSE, BidcosStored(v, desc), desc)
<1> DEFINE w == BidcosStored(v, desc)
           limits == Limits(desc)
<1>1. w \in Value /\ BidcosStored(w, desc) = w
  <2>1. CASE desc.type \in {"BOOL", "ACTION", "STRING"}
    BY <2>1, Values DEF BidcosStored
  <2>2. CASE desc.type = "INTEGER"
    <3>1. PICK n \in Int : n = Rounded(v)
      <4>1. v.type = "fraction" => v.of \in Int
        BY Values
      <4>2. v.type = "fraction" => Rounded(v) \in Int
        BY <4>1 DEF Rounded
      <4>3. v.type # "fraction" => Rounded(v) \in {0, Number(v)}
        BY DEF Rounded
      <4> QED
        BY <4>2, <4>3, Parsed
    <3>2. PICK c \in Value : c = ClampTo(Integer(n), limits)
      BY <3>1, ClampSettles, LimitsOrdered, Values DEF Integer
    <3>3. c.of \in Int /\ ClampTo(Integer(c.of), limits).of = c.of
      BY <3>1, <3>2, ClampSettles, LimitsOrdered, Values DEF Integer
    <3>4. w = Integer(c.of)
      BY <2>2, <3>1, <3>2 DEF BidcosStored
    <3> HIDE DEF w
    <3>5. Rounded(w) = c.of
      BY <3>3, <3>4 DEF Rounded, Number, Whole, Half, Integer
    <3> QED
      BY <2>2, <3>3, <3>4, <3>5, Values DEF BidcosStored
  <2>3. CASE desc.type = "FLOAT"
    <3>1. v.type # "int"
      BY <2>3 DEF BidcosStored
    <3>2. PICK x : x = IF v.type = "bool" THEN Real(0) ELSE Typed(v, "FLOAT")
      OBVIOUS
    <3>3. x \in Value /\ x.type \in {"real", "fraction"}
      <4>1. CASE v.type = "bool"
        BY <3>2, <4>1, Values, Parsed
      <4>2. CASE v.type # "bool" /\ Half(v)
        <5>1. x = [type |-> "fraction", of |-> v.of] /\ v.of \in Int
          BY <3>2, <4>2, Parsed DEF Typed
        <5> QED
          BY <5>1 DEF Value
      <4>3. CASE v.type # "bool" /\ ~Half(v)
        <5>1. x = Real(Whole(v))
          BY <3>2, <4>3 DEF Typed
        <5> QED
          BY <5>1, Values, Parsed
      <4> QED
        BY <4>1, <4>2, <4>3
    <3>4. w = ClampTo(x, limits)
      BY <2>3, <3>1, <3>2 DEF BidcosStored
    <3> HIDE DEF w
    <3>5. w \in Value /\ w.type \in {"real", "fraction"} /\ ClampTo(w, limits) = w
      BY <3>3, <3>4, ClampSettles, LimitsOrdered
    <3>6. Typed(w, "FLOAT") = w
      BY <3>5 DEF Typed, Whole, Half, Value, Real, Texts
    <3> QED
      BY <2>3, <3>5, <3>6 DEF BidcosStored
  <2>4. CASE desc.type = "ENUM" /\ IsString(v)
    <3>1. PICK n \in 0 .. Len(desc.labels) - 1 : n = LabelIndex(v.of, desc)
      BY <2>4, LabelListed DEF IsDescription, BidcosStored, InValueList
    <3>2. w = Integer(n)
      BY <2>4, <3>1 DEF BidcosStored
    <3> HIDE DEF w
    <3>3. desc.labels # <<>> /\ Len(desc.labels) \in Nat
      BY <3>1 DEF IsDescription
    <3>4. ClampTo(w, [max |-> Len(desc.labels) - 1, min |-> 0]).of = n
      <4>1. n >= 0 /\ n <= Len(desc.labels) - 1
        BY <3>1, <3>3
      <4> QED
        BY <3>2, <4>1, Parsed DEF ClampTo, AtLeast, AtMost, Above, Below
    <3>5. ~IsString(w) /\ IsIntegral(w)
      BY <3>2 DEF IsString, IsIntegral, Texts, Integer
    <3> QED
      BY <2>4, <3>2, <3>3, <3>4, <3>5, Values DEF BidcosStored
  <2>5. CASE desc.type = "ENUM" /\ ~IsString(v)
    <3>1. IsIntegral(v)
      BY <2>5 DEF BidcosStored
    <3>6. \A n : ~IsString(Integer(n)) /\ IsIntegral(Integer(n)) /\ Integer(n).of = n
      BY DEF IsString, IsIntegral, Texts, Integer
    <3>2. CASE desc.labels = <<>>
      <4>1. w = Integer(v.of) /\ v.of \in Int
        BY <2>5, <3>1, <3>2, Values DEF BidcosStored, IsIntegral
      <4> HIDE DEF w
      <4> QED
        BY <2>5, <3>2, <3>6, <4>1, Values DEF BidcosStored
    <3>3. CASE desc.labels # <<>>
      <4> DEFINE d == [max |-> Len(desc.labels) - 1, min |-> 0]
      <4>1. Len(desc.labels) \in Nat \ {0}
        BY <3>3 DEF IsDescription
      <4>2. PICK last \in Nat : last = Len(desc.labels) - 1
        BY <4>1
      <4>3. v.of \in Int /\ v.type \in {"int", "real"}
        BY <2>5, <3>1, Values DEF IsIntegral
      <4>4. PICK n \in 0 .. last : n = ClampTo(v, d).of
        BY <4>2, <4>3, Values, Parsed DEF ClampTo, AtLeast, AtMost, Above, Below
      <4>5. w = Integer(n)
        BY <2>5, <3>1, <3>3, <4>4 DEF BidcosStored
      <4>6. ClampTo(Integer(n), d).of = n
        BY <4>2, <4>4, Values, Parsed DEF ClampTo, AtLeast, AtMost, Above, Below
      <4> HIDE DEF w
      <4> QED
        BY <2>5, <3>3, <3>6, <4>5, <4>6, Values DEF BidcosStored
    <3> QED
      BY <3>2, <3>3
  <2>6. CASE desc.type \notin {"BOOL", "ACTION", "STRING", "INTEGER", "FLOAT", "ENUM"}
    BY <2>6 DEF BidcosStored
  <2> QED
    BY <2>1, <2>2, <2>3, <2>4, <2>5, <2>6
<1> HIDE DEF w
<1> QED
  BY <1>1, Values DEF Settled, TakenBack, SameValue, w

\* What was stored comes back from json as what the write model takes back.
LEMMA JsonSettles ==
  ASSUME NEW hmip \in BOOLEAN, NEW desc, NEW v, IsDescription(desc), Settled(hmip, v, desc)
  PROVE  Settled(hmip, JsonOf(v), desc)
<1>1. CASE v.type # "int"
  BY <1>1 DEF JsonOf
<1>2. CASE v.type = "int"
  <2>1. PICK n \in Int : v = Integer(n)
    BY <1>2 DEF Settled, Value, Integer
  <2>2. JsonOf(v) = Real(n)
    BY <2>1 DEF JsonOf, Integer, Real
  <2>3. CASE hmip
    <3>1. HmipStored(v, desc) # NoValue /\ SameValue(HmipStored(v, desc), v)
      BY <2>3 DEF Settled, TakenBack
    <3>2. desc.type \in {"BOOL", "ACTION"} => n \notin {0, 1}
      BY <2>1, <3>1 DEF HmipStored, SameValue, Integer, Bool, IsIntegral
    <3>3. HmipStored(Real(n), desc) \in {Integer(n), Real(n)}
      BY <3>2 DEF HmipStored, InValueList, Integer, Real, Bool, IsIntegral
    <3> QED
      BY <2>2, <2>3, <3>3, Values DEF Settled, TakenBack, SameValue, IsIntegral, Integer, Real
  <2>4. CASE ~hmip
    <3>1. BidcosStored(v, desc) # NoValue /\ SameValue(BidcosStored(v, desc), v)
      BY <2>4 DEF Settled, TakenBack
    <3>2. desc.type \notin {"BOOL", "ACTION", "FLOAT", "STRING"}
      BY <2>1, <3>1 DEF BidcosStored, IsString, Texts, Integer
    <3>3. CASE desc.type = "INTEGER"
      <4>1. BidcosStored(Real(n), desc) = BidcosStored(v, desc)
        BY <2>1, <3>3 DEF BidcosStored, Rounded, Number, Whole, Half, Integer, Real
      <4>2. BidcosStored(v, desc).type = "int"
        BY <3>3 DEF BidcosStored, Integer
      <4>3. BidcosStored(v, desc).of = n
        BY <2>1, <3>1 DEF SameValue, Integer
      <4> QED
        BY <2>2, <2>4, <3>1, <4>1, <4>2, <4>3, Values DEF Settled, TakenBack, SameValue, IsIntegral, Real
    <3>4. CASE desc.type = "ENUM"
      <4>1. /\ BidcosStored(v, desc) = IF desc.labels = <<>> THEN Integer(n)
                 ELSE Integer(ClampTo(v, [max |-> Len(desc.labels) - 1, min |-> 0]).of)
            /\ BidcosStored(Real(n), desc) = IF desc.labels = <<>> THEN Integer(n)
                 ELSE Integer(ClampTo(Real(n), [max |-> Len(desc.labels) - 1, min |-> 0]).of)
        BY <2>1, <3>4 DEF BidcosStored, IsString, Texts, IsIntegral, Integer, Real
      <4>2. ClampTo(v, [max |-> Len(desc.labels) - 1, min |-> 0]).of
              = ClampTo(Real(n), [max |-> Len(desc.labels) - 1, min |-> 0]).of
        BY <2>1 DEF ClampTo, AtLeast, AtMost, Above, Below, Whole, Half, Integer, Real
      <4>3. BidcosStored(Real(n), desc) = BidcosStored(v, desc) /\ BidcosStored(v, desc).type = "int"
        BY <4>1, <4>2 DEF Integer
      <4>4. BidcosStored(v, desc).of = n
        BY <2>1, <3>1 DEF SameValue, Integer
      <4> QED
        BY <2>2, <2>4, <3>1, <4>3, <4>4, Values DEF Settled, TakenBack, SameValue, IsIntegral, Real
    <3>5. CASE desc.type \notin {"BOOL", "ACTION", "FLOAT", "STRING", "INTEGER", "ENUM"}
      <4>1. BidcosStored(Real(n), desc) = Real(n)
        BY <3>5 DEF BidcosStored
      <4> QED
        BY <2>2, <2>4, <4>1, Values DEF Settled, TakenBack, SameValue
    <3> QED
      BY <3>2, <3>3, <3>4, <3>5
  <2> QED
    BY <2>3, <2>4
<1> QED
  BY <1>1, <1>2

LEMMA JsonIsValue ==
  ASSUME NEW v \in Value
  PROVE  JsonOf(v) \in Value
BY DEF JsonOf, Value

-----------------------------------------------------------------------------
(* Writes of one parameter after the other                                 *)

\* A write stores the parameter and what the device reports.
LEMMA WrittenParameters ==
  ASSUME NEW type, NEW p, NEW v, NEW now
  PROVE  DOMAIN Written(type, p, v, now) \subseteq {p} \cup DOMAIN now \cup Reported
<1> DEFINE stored == Entered(now, p, v)
           response == Mapping(type, p)
<1>1. DOMAIN stored = {p} \cup DOMAIN now
  BY DEF Entered
<1> HIDE DEF stored, response
<1>2. DOMAIN ComputeEvents(type, p, v, stored) \subseteq {p} \cup DOMAIN stored \cup Reported
  <2>1. CASE response = "state and working"
    BY <2>1 DEF ComputeEvents, Over, Named, Reported, response
  <2>2. CASE response = "level and activity"
    BY <2>2 DEF ComputeEvents, Over, Named, Reported, response
  <2>3. CASE response \in {"level, slats and activity", "level and slats"}
    BY <2>3 DEF ComputeEvents, Over, Named, Restrict, Reported, response
  <2>4. CASE response = "set point and mode"
    BY <2>4 DEF ComputeEvents, Over, Named, Restrict, Reported, response
  <2>5. CASE response \in {"test result", "lock state"}
    BY <2>5 DEF ComputeEvents, Named, Reported, response
  <2>6. CASE response \notin {"state and working", "level and activity", "level, slats and activity",
                             "level and slats", "set point and mode", "test result", "lock state"}
    BY <2>6 DEF ComputeEvents, Named, response
  <2> QED
    BY <2>1, <2>2, <2>3, <2>4, <2>5, <2>6
<1>3. DOMAIN Written(type, p, v, now) = DOMAIN ComputeEvents(type, p, v, stored) \cup DOMAIN stored
  BY DEF Written, Over, stored
<1> QED
  BY <1>1, <1>2, <1>3

\* What is written one after the other up to the i-th parameter.
AfterOne(type, order, own, i, now) ==
  IF order[i] \in DOMAIN own THEN Written(type, order[i], own[order[i]], now) ELSE now

IsRun(f, n, type, order, own, before) ==
  f = [i \in 0 .. n |-> IF i = 0 THEN before ELSE AfterOne(type, order, own, i, f[i - 1])]

\* There is such a run of every length: from a shortest one that there is not, the
\* one before it could be continued.
LEMMA RunExists ==
  ASSUME NEW type, NEW order, NEW own, NEW before, NEW n \in Nat
  PROVE  \E f : IsRun(f, n, type, order, own, before)
<1> DEFINE none == {k \in Nat : ~ \E f : IsRun(f, k, type, order, own, before)}
<1>1. none \in SUBSET Nat
  OBVIOUS
<1>2. SUFFICES ASSUME none # {} PROVE FALSE
  OBVIOUS
<1> HIDE DEF none
<1>3. PICK k \in none : \A j \in none : k <= j
  BY <1>1, <1>2, LeastNumber
<1>4. k \in Nat /\ ~ \E f : IsRun(f, k, type, order, own, before)
  BY <1>3 DEF none
<1>5. CASE k = 0
  <2> DEFINE f == [i \in 0 .. 0 |-> before]
  <2>1. IsRun(f, 0, type, order, own, before)
    BY DEF IsRun
  <2> QED
    BY <1>4, <1>5, <2>1
<1>6. CASE k # 0
  <2>1. k - 1 \in Nat /\ k - 1 \notin none
    BY <1>3, <1>4, <1>6
  <2>2. PICK f : IsRun(f, k - 1, type, order, own, before)
    BY <2>1 DEF none
  <2> DEFINE g == [i \in 0 .. k |-> IF i = k THEN AfterOne(type, order, own, k, f[k - 1]) ELSE f[i]]
  <2>3. ASSUME NEW i \in 0 .. k
        PROVE  g[i] = IF i = 0 THEN before ELSE AfterOne(type, order, own, i, g[i - 1])
    <3>1. CASE i = k
      BY <1>4, <1>6, <3>1
    <3>2. CASE i # k
      <4>1. i \in 0 .. k - 1
        BY <1>4, <3>2
      <4>2. f[i] = IF i = 0 THEN before ELSE AfterOne(type, order, own, i, f[i - 1])
        BY <2>2, <4>1 DEF IsRun
      <4>3. i # 0 => g[i - 1] = f[i - 1]
        BY <1>4, <4>1
      <4> QED
        BY <3>2, <4>2, <4>3
    <3> QED
      BY <3>1, <3>2
  <2> HIDE DEF g
  <2>4. g = [i \in 0 .. k |-> g[i]]
    BY DEF g
  <2>5. IsRun(g, k, type, order, own, before)
    BY <2>3, <2>4 DEF IsRun
  <2> QED
    BY <1>4, <2>5
<1> QED
  BY <1>5, <1>6

\* Writes leave what was there, what is written and what devices report.
LEMMA WritesLeave ==
  ASSUME NEW type, NEW order, NEW own, NEW before, Len(order) \in Nat
  PROVE  DOMAIN AfterWrites(type, order, own, before) \subseteq DOMAIN before \cup DOMAIN own \cup Reported
<1> DEFINE now == CHOOSE f : IsRun(f, Len(order), type, order, own, before)
           all == DOMAIN before \cup DOMAIN own \cup Reported
           none == {k \in 0 .. Len(order) : ~(DOMAIN now[k] \subseteq all)}
<1>1. AfterWrites(type, order, own, before) = now[Len(order)]
  BY DEF AfterWrites, IsRun, AfterOne
<1>2. IsRun(now, Len(order), type, order, own, before)
  BY RunExists
<1> HIDE DEF now
<1>3. ASSUME NEW i \in 0 .. Len(order)
      PROVE  now[i] = IF i = 0 THEN before ELSE AfterOne(type, order, own, i, now[i - 1])
  BY <1>2 DEF IsRun
<1>4. none = {}
  <2>1. SUFFICES ASSUME none # {} PROVE FALSE
    OBVIOUS
  <2>2. none \in SUBSET Nat
    OBVIOUS
  <2> HIDE DEF none
  <2>3. PICK k \in none : \A j \in none : k <= j
    BY <2>1, <2>2, LeastNumber
  <2>4. k \in 0 .. Len(order) /\ ~(DOMAIN now[k] \subseteq all)
    BY <2>3 DEF none
  <2>5. k # 0
    BY <1>3, <2>4
  <2>6. k - 1 \in 0 .. Len(order) /\ k - 1 \notin none
    BY <2>3, <2>4, <2>5
  <2>7. DOMAIN now[k - 1] \subseteq all
    BY <2>6 DEF none
  <2>8. now[k] = AfterOne(type, order, own, k, now[k - 1])
    BY <1>3, <2>4, <2>5
  <2>9. DOMAIN AfterOne(type, order, own, k, now[k - 1]) \subseteq all
    BY <2>7, WrittenParameters DEF AfterOne
  <2> QED
    BY <2>4, <2>8, <2>9
<1> QED
  BY <1>1, <1>4

\* The orders of a finite set are as long as the set.
LEMMA OrdersAreFinite ==
  ASSUME NEW S, IsFiniteSet(S), NEW order \in SetToSeqs(S)
  PROVE  Len(order) \in Nat /\ \A i \in 1 .. Len(order) : order[i] \in S
<1> DEFINE n == Cardinality(S)
<1>1. n \in Nat
  BY FS_CardinalityType
<1>2. order \in [1 .. n -> S]
  BY DEF SetToSeqs
<1> HIDE DEF n
<1>3. Len(order) = n
  BY <1>1, <1>2
<1> QED
  BY <1>1, <1>2, <1>3

-----------------------------------------------------------------------------
(* What the store holds                                                    *)

IsKey(key) == key \in Addresses \X {"VALUES", "MASTER", "LINK"} /\ key[2] \in Kinds(key[1])

Hmip(a) == ModelFor(TypeOf[a]) = "HmIP"

\* What a write model stores of a configuration.
GoodMaster(a, set) ==
  \A p \in DOMAIN set :
    IF p \in DOMAIN ParamDesc[a]["MASTER"]
    THEN Settled(Hmip(a), set[p], ParamDesc[a]["MASTER"][p])
    ELSE Hmip(a) /\ set[p] \in Value

\* No action is stored, and under a write model what it takes back.
GoodSet(model, key, set) ==
  /\ key[2] = "VALUES" => \A p \in DOMAIN set : ~IsAction(ParamDesc[key[1]]["VALUES"], p)
  /\ key[2] = "MASTER" /\ model /\ ModelFor(TypeOf[key[1]]) # "none" => GoodMaster(key[1], set)

GoodStore(model, all) == \A key \in DOMAIN all : IsKey(key) /\ GoodSet(model, key, all[key])

\* What is served from the cache is fresh.
GoodCache ==
  \A key \in DOMAIN compiled :
    /\ IsKey(key) /\ key[1] \in devices /\ key[2] # "LINK"
    /\ key \notin dirty => compiled[key] = Answer(key)

DirtyStored == \A key \in dirty : key[2] # "LINK" => key \in DOMAIN overrides

\* A poisoned channel has a write model that stores what the channel does not have.
IsPoisoned(a) ==
  /\ a \in Addresses /\ "MASTER" \in Kinds(a) /\ masterModel /\ Hmip(a)
  /\ ~(DOMAIN OverridesOf(<<a, "MASTER">>) \subseteq DOMAIN ParamDesc[a]["MASTER"])

\* A SetDeviceUnreachable that has still to write.
IsWaiting(call) ==
  /\ call[1] \in Range(Maintenance) \cap Addresses
  /\ call[2] \in Seq({"UNREACH", "STICKY"} \X {Bool(TRUE), Bool(FALSE)})
  /\ call[2] # <<>>

\* What a stop is about to write.
GoodStops == StopsOK /\ \A k \in Stops : GoodStore(masterModel, stops[k].paramsets)

StoreInv ==
  /\ devices \subseteq Addresses
  /\ GoodStore(masterModel, overrides) /\ GoodStops
  /\ file = Torn \/ GoodStore(masterModel, file)
  /\ GoodCache
  /\ DirtyStored
  /\ \A a \in poisoned : IsPoisoned(a)
  /\ \A call \in unreaching : IsWaiting(call)
  /\ masterModel \in BOOLEAN

-----------------------------------------------------------------------------
(* One step of the store                                                   *)

LEMMA KeyIsPair ==
  ASSUME NEW key, IsKey(key)
  PROVE  key = <<key[1], key[2]>> /\ key[1] \in Addresses /\ key[2] \in {"VALUES", "MASTER", "LINK"}
         /\ key[2] \in Kinds(key[1])
BY DEF IsKey

LEMMA EnteredIsGood ==
  ASSUME NEW model, NEW all, NEW key, NEW set,
         GoodStore(model, all), IsKey(key), GoodSet(model, key, set)
  PROVE  GoodStore(model, Entered(all, key, set))
BY DEF GoodStore, Entered

LEMMA SameAnswer ==
  ASSUME NEW key, key \in DOMAIN overrides <=> key \in DOMAIN overrides',
         key \in DOMAIN overrides => overrides'[key] = overrides[key]
  PROVE  OverridesOf(key)' = OverridesOf(key) /\ Answer(key)' = Answer(key)
<1>1. OverridesOf(key)' = OverridesOf(key)
  BY DEF OverridesOf
<1> QED
  BY <1>1 DEF Answer

\* A step that leaves the store as it is.
LEMMA UntouchedStore ==
  ASSUME StoreInv, UNCHANGED <<devices, overrides, compiled, dirty, poisoned, unreaching, masterModel>>,
         GoodStops', file' = Torn \/ GoodStore(masterModel, file')
  PROVE  StoreInv'
<1>1. \A key : Answer(key)' = Answer(key) /\ OverridesOf(key)' = OverridesOf(key)
  BY SameAnswer
<1>2. GoodCache'
  BY <1>1 DEF StoreInv, GoodCache
<1>3. (\A a \in poisoned : IsPoisoned(a))'
  BY <1>1 DEF StoreInv, IsPoisoned
<1> QED
  BY <1>2, <1>3 DEF StoreInv, GoodStops, StopsOK, DirtyStored

\* A paramset is written, and so its copy in the cache is no longer served.
LEMMA WriteKeepsStore ==
  ASSUME StoreInv, UNCHANGED <<devices, compiled, masterModel, stops, file>>,
         NEW key, NEW set, IsKey(key), GoodSet(masterModel, key, set),
         overrides' = Entered(overrides, key, set), dirty' = dirty \cup {key},
         \A a \in poisoned' : IsPoisoned(a)', \A call \in unreaching' : IsWaiting(call)
  PROVE  StoreInv'
<1>1. GoodStore(masterModel, overrides')
  BY EnteredIsGood DEF StoreInv
<1>2. DOMAIN overrides' = {key} \cup DOMAIN overrides /\ \A k \in DOMAIN overrides : k # key => overrides'[k] = overrides[k]
  BY DEF Entered
<1>3. GoodCache'
  <2> SUFFICES ASSUME NEW k \in DOMAIN compiled, k \notin dirty'
               PROVE  compiled[k] = Answer(k)'
    BY DEF StoreInv, GoodCache
  <2>1. k # key /\ k \notin dirty
    OBVIOUS
  <2>2. Answer(k)' = Answer(k)
    BY <1>2, <2>1, SameAnswer
  <2> QED
    BY <2>1, <2>2 DEF StoreInv, GoodCache
<1>4. DirtyStored'
  BY <1>2 DEF StoreInv, DirtyStored
<1> QED
  BY <1>1, <1>3, <1>4 DEF StoreInv, GoodStops, StopsOK

\* A read puts the answer together and keeps it.
LEMMA ReadKeepsStore ==
  ASSUME StoreInv, UNCHANGED <<stops, file>>, NEW a, NEW kind, GetParamset(a, kind)
  PROVE  StoreInv'
<1>0. PICK key : key = <<a, kind>>
  OBVIOUS
<1>1. /\ kind \in {"VALUES", "MASTER"} /\ a \in devices /\ kind \in Kinds(a)
      /\ compiled' = Entered(compiled, key, Answer(key))
      /\ dirty' = dirty \ {key}
      /\ UNCHANGED <<modelVars, devices, overrides, unreaching>>
  BY <1>0 DEF GetParamset, Described
<1>2. UNCHANGED <<masterModel, poisoned>>
  BY <1>1 DEF modelVars
<1>3. IsKey(key) /\ key[1] = a /\ key[2] = kind
  BY <1>0, <1>1 DEF IsKey, StoreInv
<1>4. \A k : Answer(k)' = Answer(k) /\ OverridesOf(k)' = OverridesOf(k)
  BY <1>1, SameAnswer
<1>5. DOMAIN compiled' = {key} \cup DOMAIN compiled /\ compiled'[key] = Answer(key)
      /\ \A k \in DOMAIN compiled : k # key => compiled'[k] = compiled[k]
  BY <1>1 DEF Entered
<1>6. GoodCache'
  <2> SUFFICES ASSUME NEW k \in DOMAIN compiled'
               PROVE  /\ IsKey(k) /\ k[1] \in devices' /\ k[2] # "LINK"
                      /\ k \notin dirty' => compiled'[k] = Answer(k)'
    BY DEF GoodCache
  <2>1. CASE k = key
    BY <1>1, <1>3, <1>4, <1>5, <2>1
  <2>2. CASE k # key
    BY <1>1, <1>4, <1>5, <2>2 DEF StoreInv, GoodCache
  <2> QED
    BY <2>1, <2>2
<1>7. (\A b \in poisoned : IsPoisoned(b))'
  BY <1>2, <1>4 DEF StoreInv, IsPoisoned
<1>8. DirtyStored'
  BY <1>1 DEF StoreInv, DirtyStored
<1> QED
  BY <1>1, <1>2, <1>6, <1>7, <1>8 DEF StoreInv, GoodStops, StopsOK

\* The write model of a channel stores what it takes back.
LEMMA HmipWriteIsGood ==
  ASSUME NEW a \in Addresses, "MASTER" \in Kinds(a), Hmip(a), NEW write, NEW before,
         \A p \in DOMAIN write : write[p] \in Value, GoodMaster(a, before)
  PROVE  GoodMaster(a, HmipWrite(ParamDesc[a]["MASTER"], write, before))
<1> DEFINE desc == ParamDesc[a]["MASTER"]
           new  == HmipWrite(desc, write, before)
<1>1. ASSUME NEW p \in DOMAIN desc
      PROVE  IsDescription(desc[p])
  BY StoreAssumption DEF IsDescription, Kinds
<1>2. ASSUME NEW p \in DOMAIN new
      PROVE  \/ /\ p \in DOMAIN write
                /\ new[p] = IF p \in DOMAIN desc THEN HmipStored(write[p], desc[p]) ELSE write[p]
             \/ p \in DOMAIN before /\ new[p] = before[p]
  BY DEF HmipWrite, Over
<1> HIDE DEF new, desc
<1>3. ASSUME NEW p \in DOMAIN new
      PROVE  IF p \in DOMAIN desc THEN Settled(Hmip(a), new[p], desc[p]) ELSE Hmip(a) /\ new[p] \in Value
  <2>1. CASE p \in DOMAIN before /\ new[p] = before[p]
    BY <2>1 DEF GoodMaster, desc
  <2>2. CASE /\ p \in DOMAIN write
             /\ new[p] = IF p \in DOMAIN desc THEN HmipStored(write[p], desc[p]) ELSE write[p]
    <3>1. CASE p \in DOMAIN desc
      <4>1. Settled(TRUE, HmipStored(write[p], desc[p]), desc[p])
        BY <1>1, <2>2, <3>1, HmipSettles
      <4>2. Settled(Hmip(a), new[p], desc[p])
        BY <2>2, <3>1, <4>1 DEF Settled, TakenBack
      <4> QED
        BY <3>1, <4>2
    <3>2. CASE p \notin DOMAIN desc
      BY <2>2, <3>2
    <3> QED
      BY <3>1, <3>2
  <2> QED
    BY <1>2, <2>1, <2>2
<1> QED
  BY <1>3 DEF GoodMaster, new, desc

LEMMA BidcosWriteIsGood ==
  ASSUME NEW a \in Addresses, "MASTER" \in Kinds(a), ~Hmip(a), NEW write, NEW before,
         \A p \in DOMAIN write : write[p] \in Value, GoodMaster(a, before)
  PROVE  GoodMaster(a, BidcosWrite(ParamDesc[a]["MASTER"], write, before))
<1> DEFINE desc == ParamDesc[a]["MASTER"]
           new  == BidcosWrite(desc, write, before)
<1>1. ASSUME NEW p \in DOMAIN desc
      PROVE  IsDescription(desc[p])
  BY StoreAssumption DEF IsDescription, Kinds
<1>2. ASSUME NEW p \in DOMAIN new
      PROVE  \/ /\ p \in DOMAIN write \cap DOMAIN desc
                /\ new[p] = BidcosStored(write[p], desc[p]) /\ new[p] # NoValue
             \/ p \in DOMAIN before /\ new[p] = before[p]
  BY DEF BidcosWrite, Over
<1> HIDE DEF new, desc
<1>3. ASSUME NEW p \in DOMAIN new
      PROVE  IF p \in DOMAIN desc THEN Settled(Hmip(a), new[p], desc[p]) ELSE Hmip(a) /\ new[p] \in Value
  <2>1. CASE p \in DOMAIN before /\ new[p] = before[p]
    BY <2>1 DEF GoodMaster, desc
  <2>2. CASE /\ p \in DOMAIN write \cap DOMAIN desc
             /\ new[p] = BidcosStored(write[p], desc[p]) /\ new[p] # NoValue
    <3>1. Settled(FALSE, BidcosStored(write[p], desc[p]), desc[p])
      BY <1>1, <2>2, BidcosSettles
    <3>2. Settled(Hmip(a), new[p], desc[p])
      BY <2>2, <3>1 DEF Settled, TakenBack
    <3> QED
      BY <2>2, <3>2
  <2> QED
    BY <1>2, <2>1, <2>2
<1> QED
  BY <1>3 DEF GoodMaster, new, desc

\* A configuration is written under a model.
LEMMA MasterWriteKeepsStore ==
  ASSUME StoreInv, UNCHANGED <<stops, file>>, NEW a, NEW write, Modelled(a, "MASTER"),
         \A p \in DOMAIN write : write[p] \in Value, PutMasterModel(a, write)
  PROVE  StoreInv'
<1>0. PICK key : key = <<a, "MASTER">>
  OBVIOUS
<1> DEFINE desc   == ParamDesc[a]["MASTER"]
           before == OverridesOf(key)
           set    == IF Hmip(a) THEN HmipWrite(desc, write, before) ELSE BidcosWrite(desc, write, before)
<1>1. /\ a \in devices /\ "MASTER" \in Kinds(a)
      /\ overrides' = Entered(overrides, key, set)
      /\ dirty' = dirty \cup {key}
      /\ poisoned' = poisoned \cup (IF Hmip(a) /\ ~(DOMAIN write \subseteq DOMAIN desc) THEN {a} ELSE {})
      /\ UNCHANGED <<masterModel, devices, compiled, unreaching>>
  BY <1>0 DEF PutMasterModel, Described, Hmip
<1>2. IsKey(key) /\ key[1] = a /\ key[2] = "MASTER" /\ a \in Addresses
  BY <1>0, <1>1 DEF IsKey, StoreInv
<1>3. GoodMaster(a, before)
  <2>1. CASE key \in DOMAIN overrides
    BY <1>2, <2>1 DEF StoreInv, GoodStore, GoodSet, Modelled, OverridesOf
  <2>2. CASE key \notin DOMAIN overrides
    BY <2>2 DEF OverridesOf, GoodMaster
  <2> QED
    BY <2>1, <2>2
<1>4. DOMAIN before \subseteq DOMAIN set
  BY DEF HmipWrite, BidcosWrite, Over
<1>5. Hmip(a) /\ ~(DOMAIN write \subseteq DOMAIN desc) => ~(DOMAIN set \subseteq DOMAIN desc)
  BY DEF HmipWrite, Over
<1> HIDE DEF before
<1>6. GoodMaster(a, set)
  BY <1>1, <1>2, <1>3, HmipWriteIsGood, BidcosWriteIsGood
<1> HIDE DEF set
<1>7. GoodSet(masterModel, key, set)
  BY <1>2, <1>6 DEF GoodSet
<1>8. OverridesOf(key)' = set
  BY <1>1 DEF OverridesOf, Entered
<1>9. \A b \in poisoned' : IsPoisoned(b)'
  <2> SUFFICES ASSUME NEW b \in poisoned' PROVE IsPoisoned(b)'
    OBVIOUS
  <2>1. CASE b = a
    <3>1. Hmip(a) /\ ~(DOMAIN set \subseteq DOMAIN desc)
      BY <1>0, <1>1, <1>4, <1>5, <2>1 DEF StoreInv, IsPoisoned, before
    <3> QED
      BY <1>0, <1>1, <1>2, <1>8, <2>1, <3>1 DEF IsPoisoned, Modelled
  <2>2. CASE b # a
    <3>1. IsPoisoned(b)
      BY <1>1, <2>2 DEF StoreInv
    <3>2. OverridesOf(<<b, "MASTER">>)' = OverridesOf(<<b, "MASTER">>)
      <4>1. PICK k : k = <<b, "MASTER">>
        OBVIOUS
      <4>2. k # key
        BY <1>0, <2>2, <4>1
      <4> QED
        BY <1>1, <4>1, <4>2 DEF OverridesOf, Entered
    <3> QED
      BY <1>1, <3>1, <3>2 DEF IsPoisoned
  <2> QED
    BY <2>1, <2>2
<1>10. \A call \in unreaching' : IsWaiting(call)
  BY <1>1 DEF StoreInv
<1> QED
  BY <1>1, <1>2, <1>7, <1>9, <1>10, WriteKeepsStore

\* Without a model no action is stored, whatever order a write comes in.
LEMMA TakenIsNoAction ==
  ASSUME NEW desc, NEW order, NEW write, NEW force, Len(order) \in Nat
  PROVE  \A p \in Taken(desc, order, write, force) : ~IsAction(desc, p)
BY DEF Taken

LEMMA EachKeepsStore ==
  ASSUME StoreInv, UNCHANGED <<stops, file>>, NEW a, NEW kind \in {"VALUES", "MASTER", "LINK"},
         NEW write, NEW force, ~Modelled(a, kind), IsFiniteSet(DOMAIN write), PutEach(a, kind, write, force)
  PROVE  StoreInv'
<1>0. PICK key : key = <<a, kind>>
  OBVIOUS
<1> DEFINE desc         == ParamDesc[a][kind]
           taken(order) == Taken(desc, order, write, force)
           own(order)   == [p \in taken(order) |-> Stored(write[p], desc[p])]
           set(order)   == AfterWrites(TypeOf[a], order, own(order), OverridesOf(key))
<1>1. PICK order \in SetToSeqs(DOMAIN write) :
        /\ Described(a, kind)
        /\ overrides' = IF taken(order) = {} THEN overrides ELSE Entered(overrides, key, set(order))
        /\ dirty' = Dirtied(key, taken(order), write)
        /\ UNCHANGED <<modelVars, devices, compiled, unreaching>>
  BY <1>0 DEF PutEach
<1> HIDE DEF desc
<1>2. UNCHANGED <<masterModel, poisoned>>
  BY <1>1 DEF modelVars
<1>3. IsKey(key) /\ key[1] = a /\ key[2] = kind /\ a \in Addresses /\ kind \in Kinds(a)
  BY <1>0, <1>1 DEF IsKey, StoreInv, Described
<1>4. CASE taken(order) = {}
  BY <1>1, <1>2, <1>4, UntouchedStore DEF Dirtied, StoreInv, GoodStops, StopsOK
<1>5. CASE taken(order) # {}
  <2>1. Len(order) \in Nat
    BY <1>1, OrdersAreFinite
  <2>2. \A p \in taken(order) : ~IsAction(desc, p)
    BY <2>1, TakenIsNoAction
  <2> DEFINE all == OverridesOf(key)
  <2>3. DOMAIN own(order) = taken(order)
    OBVIOUS
  <2> HIDE DEF own, all
  <2>4. DOMAIN set(order) \subseteq DOMAIN all \cup DOMAIN own(order) \cup Reported
    BY <2>1, WritesLeave DEF all
  <2>5. kind = "VALUES" => \A p \in DOMAIN set(order) : ~IsAction(desc, p)
    <3> SUFFICES ASSUME kind = "VALUES", NEW p \in DOMAIN set(order) PROVE ~IsAction(desc, p)
      OBVIOUS
    <3>1. CASE p \in DOMAIN all
      <4>1. key \in DOMAIN overrides /\ all = overrides[key]
        BY <3>1 DEF all, OverridesOf
      <4> QED
        BY <1>3, <3>1, <4>1 DEF StoreInv, GoodStore, GoodSet, desc
    <3>2. CASE p \in taken(order)
      BY <2>2, <3>2
    <3>3. CASE p \in Reported
      BY <1>3, <3>3, StoreAssumption DEF IsAction, Kinds, desc
    <3> QED
      BY <2>3, <2>4, <3>1, <3>2, <3>3
  <2> HIDE DEF set
  <2>6. GoodSet(masterModel, key, set(order))
    BY <1>3, <2>5 DEF GoodSet, Modelled, desc
  <2>7. overrides' = Entered(overrides, key, set(order)) /\ dirty' = dirty \cup {key}
    BY <1>1, <1>5 DEF Dirtied
  <2>8. \A b \in poisoned' : IsPoisoned(b)'
    <3> SUFFICES ASSUME NEW b \in poisoned' PROVE IsPoisoned(b)'
      OBVIOUS
    <3>1. IsPoisoned(b)
      BY <1>2 DEF StoreInv
    <3>2. PICK k : k = <<b, "MASTER">>
      OBVIOUS
    <3>3. k # key
      BY <1>0, <3>1, <3>2 DEF IsPoisoned, Modelled, Hmip
    <3>4. OverridesOf(k)' = OverridesOf(k)
      BY <2>7, <3>3 DEF OverridesOf, Entered
    <3> QED
      BY <1>2, <3>1, <3>2, <3>4 DEF IsPoisoned
  <2>9. \A call \in unreaching' : IsWaiting(call)
    BY <1>1 DEF StoreInv
  <2> QED
    BY <1>1, <1>2, <1>3, <2>6, <2>7, <2>8, <2>9, WriteKeepsStore
<1> QED
  BY <1>4, <1>5

LEMMA PutKeepsStore ==
  ASSUME StoreInv, UNCHANGED <<stops, file>>,
         NEW a, NEW put, IsPut(put), NEW force, PutParamset(a, put.kind, put.set, force)
  PROVE  StoreInv'
<1>1. put.kind \in {"VALUES", "MASTER", "LINK"} /\ IsFiniteSet(DOMAIN put.set)
  BY DEF IsPut, PutParamset
<1>2. CASE Modelled(a, put.kind) /\ PutMasterModel(a, put.set)
  <2>1. put.kind = "MASTER"
    BY <1>2 DEF Modelled
  <2>2. \A p \in DOMAIN put.set : put.set[p] \in Value
    BY <2>1 DEF IsPut
  <2> QED
    BY <1>2, <2>1, <2>2, MasterWriteKeepsStore
<1>3. CASE ~Modelled(a, put.kind) /\ PutEach(a, put.kind, put.set, force)
  BY <1>1, <1>3, EachKeepsStore
<1> QED
  BY <1>2, <1>3 DEF PutParamset

\* A combined parameter stands for two parameters at most.
LEMMA ExpandedIsFinite ==
  ASSUME NEW p, NEW pairs
  PROVE  IsFiniteSet(DOMAIN Expanded(p, pairs))
<1>1. DOMAIN ConvertCombined(pairs) \subseteq {"LEVEL", "LEVEL_2"}
  BY DEF ConvertCombined, CombinedNames
<1>2. DOMAIN ConvertLevels(pairs) \subseteq {"LEVEL", "LEVEL_SLATS"}
  BY DEF ConvertLevels
<1>3. IsFiniteSet({"LEVEL", "LEVEL_2", "LEVEL_SLATS"})
  <2>1. IsFiniteSet({"LEVEL"})
    BY FS_Singleton
  <2>2. IsFiniteSet({"LEVEL"} \cup {"LEVEL_2"})
    BY <2>1, FS_AddElement
  <2>3. IsFiniteSet(({"LEVEL"} \cup {"LEVEL_2"}) \cup {"LEVEL_SLATS"})
    BY <2>2, FS_AddElement
  <2>4. ({"LEVEL"} \cup {"LEVEL_2"}) \cup {"LEVEL_SLATS"} = {"LEVEL", "LEVEL_2", "LEVEL_SLATS"}
    OBVIOUS
  <2> QED
    BY <2>3, <2>4
<1>4. DOMAIN Expanded(p, pairs) \subseteq {"LEVEL", "LEVEL_2", "LEVEL_SLATS"}
  BY <1>1, <1>2 DEF Expanded
<1> QED
  BY <1>3, <1>4, FS_Subset

LEMMA SetKeepsStore ==
  ASSUME StoreInv, UNCHANGED <<stops, file>>, NEW a, NEW p, NEW v, NEW force, SetValue(a, p, v, force)
  PROVE  StoreInv'
<1> DEFINE write == IF IsConvertable(p) THEN Expanded(p, v) ELSE Named({p}, v)
<1>1. IsFiniteSet(DOMAIN write)
  <2>1. IsFiniteSet({p})
    BY FS_Singleton
  <2>2. DOMAIN Named({p}, v) = {p}
    BY DEF Named
  <2> QED
    BY <2>1, <2>2, ExpandedIsFinite
<1>2. PutParamset(a, "VALUES", write, force)
  BY DEF SetValue
<1> HIDE DEF write
<1>3. ~Modelled(a, "VALUES") /\ PutEach(a, "VALUES", write, force)
  BY <1>2 DEF PutParamset, Modelled
<1> QED
  BY <1>1, <1>3, EachKeepsStore

LEMMA UnreachKeepsStore ==
  ASSUME StoreInv, UNCHANGED <<stops, file>>, NEW a \in Range(Maintenance), NEW flag, Unreach(a, flag)
  PROVE  StoreInv'
<1> DEFINE S    == {"UNREACH", "STICKY"} \X {Bool(TRUE), Bool(FALSE)}
           one  == <<<<"UNREACH", Bool(flag)>>>>
           rest == IF flag THEN <<<<"STICKY", Bool(TRUE)>>>> ELSE <<>>
<1>1. /\ a \in devices
      /\ unreaching' = unreaching \cup {<<a, one \o rest>>}
      /\ UNCHANGED <<modelVars, devices, overrides, compiled, dirty>>
  BY DEF Unreach
<1>2. one \in Seq(S) /\ rest \in Seq(S) /\ one # <<>>
  BY DEF Bool
<1> HIDE DEF S, one, rest
<1>3. one \o rest \in Seq(S) /\ one \o rest # <<>>
  BY <1>2
<1>4. IsWaiting(<<a, one \o rest>>)
  BY <1>1, <1>3 DEF IsWaiting, StoreInv, S
<1>5. \A call \in unreaching' : IsWaiting(call)
  BY <1>1, <1>4 DEF StoreInv
<1>6. UNCHANGED <<masterModel, poisoned>>
  BY <1>1 DEF modelVars
<1>7. \A key : Answer(key)' = Answer(key) /\ OverridesOf(key)' = OverridesOf(key)
  BY <1>1, SameAnswer
<1>8. GoodCache'
  BY <1>1, <1>7 DEF StoreInv, GoodCache
<1>9. (\A b \in poisoned : IsPoisoned(b))'
  BY <1>6, <1>7 DEF StoreInv, IsPoisoned
<1> QED
  BY <1>1, <1>5, <1>6, <1>8, <1>9 DEF StoreInv, GoodStops, StopsOK, DirtyStored

\* Whether or not the device is there by then, its maintenance channel has the
\* parameters that are written, and none of them is an action.
LEMMA UnreachWriteKeepsStore ==
  ASSUME StoreInv, UNCHANGED <<stops, file>>, UnreachWrite
  PROVE  StoreInv'
<1> DEFINE S == {"UNREACH", "STICKY"} \X {Bool(TRUE), Bool(FALSE)}
<1>1. PICK call \in unreaching :
        /\ unreaching' = (unreaching \ {call}) \cup (IF Tail(call[2]) = <<>> THEN {} ELSE {<<call[1], Tail(call[2])>>})
        /\ Maintain(call[1], Head(call[2])[1], Head(call[2])[2])
        /\ UNCHANGED <<modelVars, devices, compiled>>
  BY DEF UnreachWrite
<1>2. IsWaiting(call)
  BY DEF StoreInv
<1> HIDE DEF S
<1>3. Head(call[2]) \in S /\ Tail(call[2]) \in Seq(S)
  <2>1. PICK values \in Seq(S) : values = call[2] /\ values # <<>>
    BY <1>2 DEF IsWaiting, S
  <2>2. Head(values) \in S /\ Tail(values) \in Seq(S)
    BY <2>1, HeadTailProperties
  <2> QED
    BY <2>1, <2>2
<1>4. \A c \in unreaching' : IsWaiting(c)
  <2> SUFFICES ASSUME NEW c \in unreaching' PROVE IsWaiting(c)
    OBVIOUS
  <2>1. CASE c \in unreaching
    BY <2>1 DEF StoreInv
  <2>2. CASE c = <<call[1], Tail(call[2])>> /\ Tail(call[2]) # <<>>
    <3>1. c[1] = call[1] /\ c[2] = Tail(call[2])
      BY <2>2
    <3>2. c[2] \in Seq({"UNREACH", "STICKY"} \X {Bool(TRUE), Bool(FALSE)}) /\ c[2] # <<>>
      BY <1>3, <2>2, <3>1 DEF S
    <3> QED
      BY <1>2, <3>1, <3>2 DEF IsWaiting
  <2> QED
    BY <1>1, <2>1, <2>2
<1>5. PICK a \in Range(Maintenance) \cap Addresses : a = call[1]
  BY <1>2 DEF IsWaiting
<1>6. PICK p \in {"UNREACH", "STICKY"} : p = Head(call[2])[1]
  BY <1>3 DEF S
<1>7. PICK key : key = <<a, "VALUES">>
  OBVIOUS
<1> DEFINE v == Head(call[2])[2]
           set == Entered(OverridesOf(key), p, v)
<1>8. overrides' = Entered(overrides, key, set) /\ dirty' = dirty \cup {key}
  BY <1>1, <1>5, <1>6, <1>7 DEF Maintain
<1>9. IsKey(key) /\ key[1] = a /\ key[2] = "VALUES" /\ "VALUES" \in Kinds(a)
  BY <1>5, <1>7, StoreAssumption DEF IsKey, Kinds
<1>10. \A q \in DOMAIN set : ~IsAction(ParamDesc[a]["VALUES"], q)
  <2> SUFFICES ASSUME NEW q \in DOMAIN set PROVE ~IsAction(ParamDesc[a]["VALUES"], q)
    OBVIOUS
  <2>1. CASE q = p
    BY <1>5, <1>9, <2>1, StoreAssumption DEF IsAction, Kinds
  <2>2. CASE q # p
    <3>1. key \in DOMAIN overrides /\ q \in DOMAIN overrides[key]
      BY <2>2 DEF Entered, OverridesOf
    <3> QED
      BY <1>9, <3>1 DEF StoreInv, GoodStore, GoodSet
  <2> QED
    BY <2>1, <2>2
<1> HIDE DEF set
<1>11. GoodSet(masterModel, key, set)
  BY <1>9, <1>10 DEF GoodSet
<1>12. UNCHANGED <<masterModel, poisoned>>
  BY <1>1 DEF modelVars
<1>13. \A b \in poisoned' : IsPoisoned(b)'
  <2> SUFFICES ASSUME NEW b \in poisoned' PROVE IsPoisoned(b)'
    OBVIOUS
  <2>1. IsPoisoned(b)
    BY <1>12 DEF StoreInv
  <2>2. PICK k : k = <<b, "MASTER">>
    OBVIOUS
  <2>3. k # key
    BY <1>7, <2>2
  <2>4. OverridesOf(k)' = OverridesOf(k)
    BY <1>8, <2>3 DEF OverridesOf, Entered
  <2> QED
    BY <1>12, <2>1, <2>2, <2>4 DEF IsPoisoned
<1> QED
  BY <1>1, <1>4, <1>8, <1>9, <1>11, <1>12, <1>13, WriteKeepsStore

\* What goes, goes from the store, the cache and the poisoned channels.
LEMMA DropKeepsStore ==
  ASSUME StoreInv, UNCHANGED <<stops, file>>, NEW going, NEW types, Drop(going, types)
  PROVE  StoreInv'
<1>1. /\ devices' = devices \ going
      /\ overrides' = Restrict(overrides, {k \in DOMAIN overrides : k[1] \notin going})
      /\ compiled' = Restrict(compiled, {k \in DOMAIN compiled : k[1] \notin going})
      /\ dirty' = {k \in dirty : k[1] \notin going \/ k[2] = "LINK"}
      /\ poisoned' = poisoned \ going
      /\ UNCHANGED <<masterModel, unreaching>>
  BY DEF Drop, Cleared, DirtyAfter, PoisonedAfter
<1>2. /\ DOMAIN overrides' = {k \in DOMAIN overrides : k[1] \notin going}
      /\ \A k \in DOMAIN overrides' : overrides'[k] = overrides[k]
      /\ DOMAIN compiled' = {k \in DOMAIN compiled : k[1] \notin going}
      /\ \A k \in DOMAIN compiled' : compiled'[k] = compiled[k]
  BY <1>1 DEF Restrict
<1>3. ASSUME NEW key, key[1] \notin going
      PROVE  OverridesOf(key)' = OverridesOf(key) /\ Answer(key)' = Answer(key)
  BY <1>2, <1>3, SameAnswer
<1>4. GoodStore(masterModel, overrides')
  BY <1>2 DEF StoreInv, GoodStore
<1>5. GoodCache'
  <2> SUFFICES ASSUME NEW k \in DOMAIN compiled'
               PROVE  /\ IsKey(k) /\ k[1] \in devices' /\ k[2] # "LINK"
                      /\ k \notin dirty' => compiled'[k] = Answer(k)'
    BY DEF GoodCache
  <2>1. k \in DOMAIN compiled /\ k[1] \notin going /\ compiled'[k] = compiled[k]
    BY <1>2
  <2> QED
    BY <1>1, <1>3, <2>1 DEF StoreInv, GoodCache
<1>6. DirtyStored'
  BY <1>1, <1>2 DEF StoreInv, DirtyStored
<1>7. \A b \in poisoned' : IsPoisoned(b)'
  <2> SUFFICES ASSUME NEW b \in poisoned' PROVE IsPoisoned(b)'
    OBVIOUS
  <2>1. IsPoisoned(b) /\ b \notin going
    BY <1>1 DEF StoreInv
  <2>2. OverridesOf(<<b, "MASTER">>)' = OverridesOf(<<b, "MASTER">>)
    BY <1>3, <2>1
  <2> QED
    BY <1>1, <2>1, <2>2 DEF IsPoisoned
<1> QED
  BY <1>1, <1>4, <1>5, <1>6, <1>7 DEF StoreInv, GoodStops, StopsOK

LEMMA AddKeepsStore ==
  ASSUME StoreInv, UNCHANGED <<stops, file>>, NEW t \in Types, AddDevices({t})
  PROVE  StoreInv'
<1>1. /\ devices' = devices \cup UNION {AddressesOf[x] : x \in {t} \ active}
      /\ UNCHANGED <<overrides, compiled, dirty, unreaching, masterModel, poisoned>>
  BY DEF AddDevices, modelVars
<1>2. devices \subseteq devices' /\ devices' \subseteq Addresses
  BY <1>1, CatalogueAssumption DEF StoreInv
<1>3. \A key : Answer(key)' = Answer(key) /\ OverridesOf(key)' = OverridesOf(key)
  BY <1>1, SameAnswer
<1>4. GoodCache'
  BY <1>1, <1>2, <1>3 DEF StoreInv, GoodCache
<1>5. (\A b \in poisoned : IsPoisoned(b))'
  BY <1>1, <1>3 DEF StoreInv, IsPoisoned
<1> QED
  BY <1>1, <1>2, <1>4, <1>5 DEF StoreInv, GoodStops, StopsOK, DirtyStored

-----------------------------------------------------------------------------
(* Web requests                                                            *)

\* What a request has still to call are calls of the bodies there are.
IsRequest(r) == r.call \in WebCalls /\ r.rest \in Seq(WebCalls)

CallsOK == \A s \in Slots : request[s] # NoRequest => IsRequest(request[s])

LEMMA FirstIsRequest ==
  ASSUME NEW body \in Seq(WebCalls), body # <<>>, NEW off
  PROVE  IsRequest(At(body, off))
<1>1. Head(body) \in WebCalls /\ Tail(body) \in Seq(WebCalls)
  BY HeadTailProperties
<1> QED
  BY <1>1 DEF At, IsRequest

LEMMA OneCall ==
  ASSUME SessInv, CallsOK, NEW s \in Slots, NEW r, request' = [request EXCEPT ![s] = r],
         r = NoRequest \/ IsRequest(r)
  PROVE  CallsOK'
BY DEF SessInv, RequestInv, CallsOK, IsRequest

LEMMA AnsweredIsRequest ==
  ASSUME CallsOK, NEW s \in Slots, request[s] # NoRequest
  PROVE  Answered(s) = NoRequest \/ IsRequest(Answered(s))
BY FirstIsRequest DEF Answered, CallsOK, IsRequest

\* A request that goes on keeps its calls.
KeepsCall(r) == DOMAIN r = {"stage", "call", "rest", "off", "tried", "idle", "dead"} /\ IsRequest(r)

LEMMA OneKept ==
  ASSUME SessInv, CallsOK, NEW s \in Slots, KeepsCall(request'[s]), DOMAIN request' = Slots,
         \A t \in Slots : t # s => request'[t] = request[t]
  PROVE  CallsOK'
BY DEF SessInv, RequestInv, CallsOK, IsRequest, KeepsCall

LEMMA AdmissionKeepsCalls ==
  ASSUME SessInv, CallsOK, NEW s \in Slots, AdmissionStep(s)
  PROVE  CallsOK'
<1> DEFINE r == request[s]
<1>1. r # NoRequest /\ DOMAIN request = Slots /\ KeepsCall(r)
  BY DEF AdmissionStep, SessInv, RequestInv, Good, CallsOK, KeepsCall
<1>2. CASE CheckEnabled(s)
  <2>1. PICK stage, tried : request' = [request EXCEPT ![s].stage = stage, ![s].tried = tried]
    BY <1>2 DEF CheckEnabled
  <2>2. request'[s] = [[r EXCEPT !.stage = stage] EXCEPT !.tried = tried]
    BY <1>1, <2>1
  <2>3. KeepsCall(request'[s])
    BY <1>1, <2>2 DEF KeepsCall, IsRequest
  <2> QED
    BY <1>1, <2>1, <2>3, OneKept
<1>3. CASE ValidateEnabled(s)
  <2>1. PICK stage : request' = [request EXCEPT ![s].stage = stage]
    BY <1>3 DEF ValidateEnabled, Verdict
  <2>2. request'[s] = [r EXCEPT !.stage = stage]
    BY <1>1, <2>1
  <2>3. KeepsCall(request'[s])
    BY <1>1, <2>2 DEF KeepsCall, IsRequest
  <2> QED
    BY <1>1, <2>1, <2>3, OneKept
<1>4. CASE ValidateLookup(s)
  <2>1. PICK next : /\ next \in {Verdict(s, TRUE), Retry(s)}
                    /\ request' = Seen(s, next)
    BY <1>4 DEF ValidateLookup
  <2>2. DOMAIN next = Slots /\ KeepsCall(next[s]) /\ \A t \in Slots : t # s => next[t] = request[t]
    <3>1. ASSUME NEW valid
          PROVE  LET verdict == Verdict(s, valid) IN
                 DOMAIN verdict = Slots /\ KeepsCall(verdict[s]) /\ \A t \in Slots : t # s => verdict[t] = request[t]
      <4>1. PICK stage : Verdict(s, valid) = [request EXCEPT ![s].stage = stage]
        BY DEF Verdict
      <4>2. Verdict(s, valid)[s] = [r EXCEPT !.stage = stage]
        BY <1>1, <4>1
      <4>3. KeepsCall(Verdict(s, valid)[s])
        BY <1>1, <4>2 DEF KeepsCall, IsRequest
      <4> QED
        BY <1>1, <4>1, <4>3
    <3>2. CASE next \in {Verdict(s, TRUE), Verdict(s, FALSE)}
      BY <3>1, <3>2
    <3>3. CASE next \notin {Verdict(s, TRUE), Verdict(s, FALSE)}
      <4>1. next = [request EXCEPT ![s].stage = "validate", ![s].tried = r.call.second]
        BY <2>1, <3>3 DEF Retry
      <4>2. next[s] = [[r EXCEPT !.stage = "validate"] EXCEPT !.tried = r.call.second]
        BY <1>1, <4>1
      <4>3. KeepsCall(next[s])
        BY <1>1, <4>2 DEF KeepsCall, IsRequest
      <4> QED
        BY <1>1, <4>1, <4>3
    <3> QED
      BY <3>2, <3>3
  <2>3. PICK idle, dead : request' = [next EXCEPT ![s].idle = idle, ![s].dead = dead]
    BY <2>1 DEF Seen
  <2>4. request'[s] = [[next[s] EXCEPT !.idle = idle] EXCEPT !.dead = dead]
    BY <2>2, <2>3
  <2>5. KeepsCall(request'[s])
    BY <2>2, <2>4 DEF KeepsCall, IsRequest
  <2> QED
    BY <2>2, <2>3, <2>5, OneKept
<1>5. CASE Refuse(s)
  BY <1>1, <1>5, OneCall, AnsweredIsRequest DEF Refuse
<1> QED
  BY <1>2, <1>3, <1>4, <1>5 DEF AdmissionStep

LEMMA HandlersKeepCalls ==
  ASSUME SessInv, CallsOK, NEW s \in Slots, Handle(s)
  PROVE  CallsOK'
<1>1. request[s] # NoRequest /\ DOMAIN request = Slots /\ KeepsCall(request[s])
  BY DEF Handle, SessInv, RequestInv, Good, CallsOK, KeepsCall
<1>2. \/ Answers(s)
      \/ GoesTo(s, "looked") \/ GoesTo(s, "download")
      \/ UNCHANGED request
  BY DEF Handle, SessionHandler, StateHandler, InterfaceHandler, QuietHandler, Looks, Acts,
         DownloadStatus, DownloadData, ListAllDetail
<1>3. CASE Answers(s)
  BY <1>1, <1>3, OneCall, AnsweredIsRequest DEF Answers
<1>4. ASSUME NEW stage, GoesTo(s, stage)
      PROVE  CallsOK'
  <2>1. request'[s] = [request[s] EXCEPT !.stage = stage]
    BY <1>1, <1>4 DEF GoesTo
  <2>2. KeepsCall(request'[s])
    BY <1>1, <2>1 DEF KeepsCall, IsRequest
  <2> QED
    BY <1>1, <1>4, <2>2, OneKept DEF GoesTo
<1>5. CASE UNCHANGED request
  BY <1>5 DEF CallsOK
<1> QED
  BY <1>2, <1>3, <1>4, <1>5

LEMMA EveryStepKeepsCalls ==
  ASSUME SessInv, CallsOK, [Next]_ccuVars
  PROVE  CallsOK'
<1>1. CASE WebCall
  <2>1. CASE \E part \in DOMAIN Bodies, s \in Slots : \E body \in Bodies[part] : Spend(part) /\ Arrive(s, body)
    <3>1. PICK part \in DOMAIN Bodies, s \in Slots : \E body \in Bodies[part] : Arrive(s, body)
      BY <2>1
    <3>2. PICK body \in Bodies[part] : Arrive(s, body)
      BY <3>1
    <3>3. body \in Seq(WebCalls) /\ body # <<>>
      BY PutsAssumption DEF Range
    <3>4. IsRequest(At(body, ~enabled))
      BY <3>3, FirstIsRequest
    <3> QED
      BY <3>2, <3>4, OneCall DEF Arrive
  <2>2. CASE \E on \in BOOLEAN : SetAuthEnabled(on)
    <3>1. PICK on \in BOOLEAN : SetAuthEnabled(on)
      BY <2>2
    <3>2. ASSUME NEW s \in Slots, request'[s] # NoRequest
          PROVE  IsRequest(request'[s])
      <4>1. request[s] # NoRequest /\ KeepsCall(request[s])
        BY <3>1, <3>2 DEF SetAuthEnabled, SessInv, RequestInv, Good, CallsOK, KeepsCall
      <4>2. PICK off : request'[s] = [request[s] EXCEPT !.off = off]
        BY <3>1, <4>1 DEF SetAuthEnabled
      <4> QED
        BY <4>1, <4>2 DEF KeepsCall, IsRequest
    <3> QED
      BY <3>2 DEF CallsOK, IsRequest
  <2>3. CASE CleanupExpired \/ InvalidateAll \/ \E on \in BOOLEAN : SetWebReady(on)
    BY <2>3 DEF CleanupExpired, InvalidateAll, SetWebReady, CallsOK
  <2> QED
    BY <1>1, <2>1, <2>2, <2>3 DEF WebCall
<1>2. CASE Admission
  BY <1>2, AdmissionKeepsCalls DEF Admission, SessionTick, CallsOK
<1>3. CASE WebRun
  BY <1>3, HandlersKeepCalls DEF WebRun
<1>4. CASE ~(WebCall \/ Admission \/ WebRun)
  BY <1>4, OthersKeepSessions DEF sessVars, CallsOK
<1> QED
  BY <1>1, <1>2, <1>3, <1>4

-----------------------------------------------------------------------------
(* The file                                                                *)

\* What json keeps of a store is as good as the store.
LEMMA JsonIsGood ==
  ASSUME NEW model \in BOOLEAN, NEW all, GoodStore(model, all)
  PROVE  GoodStore(model, AsJson(all))
<1> DEFINE json == AsJson(all)
<1>1. /\ DOMAIN json = DOMAIN all
      /\ \A key \in DOMAIN all : /\ DOMAIN json[key] = DOMAIN all[key]
                                 /\ \A p \in DOMAIN all[key] : json[key][p] = JsonOf(all[key][p])
  BY DEF AsJson, JsonOf
<1> HIDE DEF json
<1>2. ASSUME NEW key \in DOMAIN all, key[2] = "MASTER", GoodMaster(key[1], all[key]), IsKey(key)
      PROVE  GoodMaster(key[1], json[key])
  <2> DEFINE desc == ParamDesc[key[1]]["MASTER"]
  <2>1. \A p \in DOMAIN desc : IsDescription(desc[p])
    BY <1>2, KeyIsPair, StoreAssumption DEF IsDescription, Kinds
  <2>2. Hmip(key[1]) \in BOOLEAN
    BY DEF Hmip
  <2> HIDE DEF desc
  <2>3. ASSUME NEW p \in DOMAIN all[key]
        PROVE  IF p \in DOMAIN desc THEN Settled(Hmip(key[1]), json[key][p], desc[p])
               ELSE Hmip(key[1]) /\ json[key][p] \in Value
    <3>1. CASE p \in DOMAIN desc
      <4>1. Settled(Hmip(key[1]), all[key][p], desc[p])
        BY <1>2, <3>1 DEF GoodMaster, desc
      <4> QED
        BY <1>1, <2>1, <2>2, <3>1, <4>1, JsonSettles
    <3>2. CASE p \notin DOMAIN desc
      <4>1. Hmip(key[1]) /\ all[key][p] \in Value
        BY <1>2, <3>2 DEF GoodMaster, desc
      <4> QED
        BY <1>1, <3>2, <4>1, JsonIsValue
    <3> QED
      BY <3>1, <3>2
  <2> QED
    BY <1>1, <2>3 DEF GoodMaster, desc
<1>3. ASSUME NEW key \in DOMAIN all
      PROVE  GoodSet(model, key, json[key])
  <2>1. IsKey(key) /\ GoodSet(model, key, all[key])
    BY DEF GoodStore
  <2> QED
    BY <1>1, <1>2, <2>1 DEF GoodSet
<1> QED
  BY <1>1, <1>3 DEF GoodStore, json

\* A new process starts with the paramsets of the file, or with none.
LEMMA BootKeepsStore ==
  ASSUME StoreInv, Boot
  PROVE  StoreInv'
<1>1. /\ devices' = UNION {AddressesOf[t] : t \in Loads}
      /\ overrides' = IF file = Torn THEN <<>> ELSE file
      /\ compiled' = <<>> /\ dirty' = {} /\ poisoned' = {} /\ unreaching' = {}
      /\ UNCHANGED <<masterModel, file>> /\ stops' = [k \in Stops |-> NoStop]
  BY DEF Boot, Loaded
<1>2. GoodStore(masterModel, <<>>)
  BY DEF GoodStore
<1>3. GoodStore(masterModel, overrides')
  BY <1>1, <1>2 DEF StoreInv
<1>4. devices' \subseteq Addresses
  BY <1>1, LoadsAssumption
<1>5. GoodCache' /\ DirtyStored'
  BY <1>1 DEF GoodCache, DirtyStored
<1> QED
  BY <1>1, <1>2, <1>3, <1>4, <1>5 DEF StoreInv, GoodStops, StopsOK, NoStop, IsStop

LEMMA StopKeepsStore ==
  ASSUME StoreInv, UNCHANGED storeVars,
         UNCHANGED <<stops, file>> \/ \E k \in Stops : Stop(k) \/ StopStep(k)
  PROVE  StoreInv'
<1>1. GoodStops' /\ (file' = Torn \/ GoodStore(masterModel, file'))
  <2>1. CASE UNCHANGED <<stops, file>>
    BY <2>1 DEF StoreInv, GoodStops, StopsOK, storeVars, modelVars
  <2>2. ASSUME NEW k \in Stops, Stop(k) \/ StopStep(k)
        PROVE  GoodStops' /\ (file' = Torn \/ GoodStore(masterModel, file'))
    <3>1. GoodStore(masterModel, <<>>) /\ GoodStore(masterModel, AsJson(overrides))
      BY JsonIsGood DEF StoreInv, GoodStore
    <3>2. /\ file' \in {file, Torn, stops[k].paramsets}
          /\ StopsOK'
          /\ \A j \in Stops : stops'[j].paramsets \in {stops[j].paramsets, AsJson(overrides), <<>>}
      BY <2>2, StopChanges, StopWrites DEF StoreInv, GoodStops
    <3> QED
      BY <3>1, <3>2 DEF StoreInv, GoodStops, storeVars
  <2> QED
    BY <2>1, <2>2
<1> QED
  BY <1>1, UntouchedStore DEF storeVars

-----------------------------------------------------------------------------
(* Every step of the CCU                                                   *)

LEMMA LinksKeepStore ==
  ASSUME StoreInv, UNCHANGED <<stops, file>>,
         \/ \E a, p, on : Suppress(a, p, on)
         \/ \E s, r : AddLink(s, r) \/ RemoveLink(s, r)
         \/ \E s, r, name : SetLinkInfo(s, r, name) \/ PutLinkParamset(s, r, name)
         \/ \E a, field, v : SetMetadata(a, field, v)
  PROVE  StoreInv'
<1>1. UNCHANGED <<devices, overrides, compiled, dirty, poisoned, unreaching, masterModel>>
  BY DEF Suppress, AddLink, RemoveLink, SetLinkInfo, PutLinkParamset, SetMetadata, modelVars
<1> QED
  BY <1>1, UntouchedStore DEF StoreInv, GoodStops, StopsOK

LEMMA CallsKeepStore ==
  ASSUME StoreInv, StoreCall \/ LinkCall \/ StoreRun
  PROVE  StoreInv'
<1>1. UNCHANGED <<stops, file>>
  BY DEF StoreCall, LinkCall, StoreRun, serverVars
<1>2. CASE StoreRun
  BY <1>1, <1>2, UnreachWriteKeepsStore DEF StoreRun
<1>3. CASE LinkCall
  BY <1>1, <1>3, LinksKeepStore DEF LinkCall
<1>4. CASE StoreCall
  <2>1. CASE \E a \in Addresses, kind \in {"VALUES", "MASTER"} : GetParamset(a, kind)
    BY <1>1, <2>1, ReadKeepsStore
  <2>2. CASE \E put \in Puts, force \in BOOLEAN : PutParamset(put.address, put.kind, put.set, force)
    BY <1>1, <2>2, PutKeepsStore, PutsAssumption
  <2>3. CASE \E one \in Sets : SetValue(one.address, one.key, one.value, FALSE)
    BY <1>1, <2>3, SetKeepsStore
  <2>4. CASE \E a \in Range(Maintenance), flag \in BOOLEAN : Unreach(a, flag)
    BY <1>1, <2>4, UnreachKeepsStore
  <2>5. CASE \E a, p, on : Suppress(a, p, on)
    BY <1>1, <2>5, LinksKeepStore
  <2> QED
    BY <1>4, <2>1, <2>2, <2>3, <2>4, <2>5 DEF StoreCall
<1> QED
  BY <1>2, <1>3, <1>4

LEMMA WebKeepsStore ==
  ASSUME StoreInv, CallsOK, NEW s \in Slots, Handle(s)
  PROVE  StoreInv'
<1>1. UNCHANGED <<stops, file>>
  BY HandlersOnlyCall DEF serverVars
<1>2. CASE InterfaceHandler(s)
  <2> DEFINE arg == CallOf(s).arg
  <2>1. CASE setValue(s, arg)
    BY <1>1, <2>1, SetKeepsStore DEF setValue
  <2>2. CASE getParamset(s, arg)
    BY <1>1, <2>2, ReadKeepsStore DEF getParamset
  <2>3. CASE putParamset(s, arg)
    <3>1. CallOf(s) \in WebCalls
      BY DEF Handle, CallsOK, IsRequest, CallOf
    <3>2. CallOf(s).method = "Interface.putParamset" /\ PutParamset(arg.address, arg.kind, arg.set, FALSE)
      BY <2>3 DEF putParamset, Is
    <3>3. IsPut(arg)
      BY <3>1, <3>2, PutsAssumption
    <3> QED
      BY <1>1, <3>2, <3>3, PutKeepsStore
  <2>4. CASE setLinkInfo(s, arg) \/ suppressServiceMessages(s, arg)
    BY <1>1, <2>4, LinksKeepStore DEF setLinkInfo, suppressServiceMessages
  <2>5. CASE interfaceInit(s, arg)
    <3>1. UNCHANGED storeVars
      BY <2>5 DEF interfaceInit, Register, Unregister
    <3> QED
      BY <1>1, <3>1, StopKeepsStore
  <2> QED
    BY <1>2, <2>1, <2>2, <2>3, <2>4, <2>5 DEF InterfaceHandler
<1>3. CASE ~InterfaceHandler(s)
  <2>1. UNCHANGED rpcVars
    BY <1>3 DEF Handle, SessionHandler, StateHandler, QuietHandler, Looks, Acts, DownloadStatus,
       DownloadData, ListAllDetail
  <2> QED
    BY <1>1, <2>1, StopKeepsStore DEF rpcVars
<1> QED
  BY <1>2, <1>3

LEMMA CatalogueKeepsStore ==
  ASSUME StoreInv, CatalogueCall \/ CatalogueRun
  PROVE  StoreInv'
<1>1. UNCHANGED <<stops, file>>
  BY DEF CatalogueCall, CatalogueRun, serverVars
<1>2. CASE \E t \in Types : AddDevices({t})
  BY <1>1, <1>2, AddKeepsStore
<1>3. CASE \E going, types : Drop(going, types)
  BY <1>1, <1>3, DropKeepsStore
<1>4. CASE CatalogueRun \/ \E c : Register(c) \/ Unregister(c)
  <2>1. UNCHANGED storeVars
    BY <1>4 DEF CatalogueRun, WorkStep, AddTell, Ask, AskFails, Diff, Deliver, Lose, Register, Unregister
  <2> QED
    BY <1>1, <2>1, StopKeepsStore
<1>5. (\E types : RemoveDevices(types)) \/ (\E a : DeleteDevice(a)) => \E going, types : Drop(going, types)
  BY DEF RemoveDevices, DeleteDevice
<1> QED
  BY <1>2, <1>3, <1>4, <1>5 DEF CatalogueCall

LEMMA LifeKeepsStore ==
  ASSUME StoreInv, LifeCall \/ LifeRun
  PROVE  StoreInv'
<1>1. CASE Boot
  BY <1>1, BootKeepsStore
<1>2. CASE ~Boot
  <2>1. UNCHANGED storeVars
    BY <1>2 DEF LifeCall, LifeRun, ResumeRest, ForgetClients, ReannounceClients
  <2>2. UNCHANGED <<stops, file>> \/ \E k \in Stops : Stop(k) \/ StopStep(k)
    BY <1>2 DEF LifeCall, LifeRun, StartServer, Suspend, Resume, StartTLS, StopTLS, Occupy,
       SetBINRPC, SuspendClose, SuspendBin, ResumeRest
  <2> QED
    BY <2>1, <2>2, StopKeepsStore
<1> QED
  BY <1>1, <1>2

LEMMA EveryStepKeepsStore ==
  ASSUME StoreInv, CallsOK, [Next]_ccuVars
  PROVE  StoreInv'
<1>1. CASE StoreCall \/ LinkCall \/ StoreRun
  BY <1>1, CallsKeepStore
<1>2. CASE CatalogueCall \/ CatalogueRun
  BY <1>2, CatalogueKeepsStore
<1>3. CASE LifeCall \/ LifeRun
  BY <1>3, LifeKeepsStore
<1>4. CASE WebRun
  BY <1>4, WebKeepsStore DEF WebRun
<1>5. CASE \/ FaultCall \/ FaultRun \/ WebCall \/ Admission \/ StateCall \/ StateRun
           \/ VirtualCall \/ VirtualRun \/ UNCHANGED ccuVars
  <2>1. UNCHANGED <<storeVars, stops, file>>
    BY <1>5 DEF FaultCall, FaultRun, WebCall, Admission, StateCall, StateRun, VirtualCall, VirtualRun,
       InjectFault, ClearFaults, Intercept, DelayEnds, LetGo, ccuVars, lifeVars, serverVars
  <2> QED
    BY <2>1, StopKeepsStore
<1> QED
  BY <1>1, <1>2, <1>3, <1>4, <1>5 DEF Next

LEMMA StoreStarts ==
  ASSUME Init
  PROVE  SessInv /\ CallsOK /\ StoreInv
<1>1. SessInv /\ CallsOK
  BY DEF Init, SessInit, SessInv, TableInv, RequestInv, CallsOK
<1>2. /\ devices \subseteq Addresses /\ masterModel \in BOOLEAN
      /\ overrides = <<>> /\ stops = [k \in Stops |-> NoStop] /\ file = <<>> /\ compiled = <<>>
      /\ dirty = {} /\ poisoned = {} /\ unreaching = {}
  BY DEF Init, StoreInit, LifeInit
<1>3. GoodStops
  BY <1>2 DEF GoodStops, StopsOK, GoodStore, NoStop, IsStop
<1>4. StoreInv
  BY <1>2, <1>3 DEF StoreInv, GoodStore, GoodCache, DirtyStored
<1> QED
  BY <1>1, <1>4

\* Nothing a client reads of the store is stale or cannot be written back, for
\* every catalogue of devices and descriptions, every value that is written and
\* any order of reads, writes, unreachable devices, deletions, saves and restarts
\* (GetParamset, putParamset, putMasterModel, clearAddressCachesLocked,
\* SaveParamsets).
THEOREM StoreStaysSound == Spec => []StoreSound
<1> DEFINE All == SessInv /\ CallsOK /\ StoreInv
<1>1. Init => All
  BY StoreStarts
<1>2. All /\ [Next]_ccuVars => All'
  BY EveryStepKeepsStore, EveryStepKeepsCalls, EveryStepKeepsSessions
<1>3. StoreInv => StoreSound
  <2> SUFFICES ASSUME StoreInv PROVE StoreSound
    OBVIOUS
  <2>1. ReadsAreFresh
    <3>1. ASSUME NEW key \in DOMAIN compiled
          PROVE  Described(key[1], key[2]) /\ Read(key[1], key[2]) = Answer(key)
      <4>1. IsKey(key) /\ key[1] \in devices /\ (key \notin dirty => compiled[key] = Answer(key))
        BY DEF StoreInv, GoodCache
      <4>2. key = <<key[1], key[2]>> /\ key[2] \in Kinds(key[1])
        BY <4>1, KeyIsPair
      <4> QED
        BY <4>1, <4>2 DEF Described, Read
    <3>2. ASSUME NEW key \in DOMAIN overrides, key[2] = "VALUES", NEW p \in DOMAIN overrides[key]
          PROVE  ~IsAction(ParamDesc[key[1]][key[2]], p)
      BY <3>2 DEF StoreInv, GoodStore, GoodSet
    <3> QED
      BY <3>1, <3>2 DEF ReadsAreFresh
  <2>2. MasterSound
    <3>1. \A a \in poisoned : ~(DOMAIN OverridesOf(<<a, "MASTER">>) \subseteq DOMAIN ParamDesc[a]["MASTER"])
      BY DEF StoreInv, IsPoisoned
    <3>2. ASSUME NEW key \in DOMAIN overrides, Modelled(key[1], key[2])
          PROVE  GoodMaster(key[1], overrides[key])
      BY <3>2 DEF StoreInv, GoodStore, GoodSet, Modelled
    <3> QED
      BY <3>1, <3>2 DEF MasterSound, GoodMaster, Settled, TakenBack, Hmip
  <2> QED
    BY <2>1, <2>2 DEF StoreSound
<1> QED
  BY <1>1, <1>2, <1>3, PTL DEF Spec

-----------------------------------------------------------------------------
(* The types of the parts                                                  *)

\* Operations under way are numbered in the order in which they started.
IsNumbered(w, n) == w.stage \in {"loaded", "ask", "asked", "push"} /\ w.n \in 1 .. n

WorkInv == started \in Nat /\ \A w \in work : IsNumbered(w, started)

\* The number of an operation stays as it goes on.
LEMMA RunKeepsNumbers ==
  ASSUME WorkInv, WorkStep
  PROVE  WorkInv'
<1>1. started' = started
  BY DEF WorkStep, AddTell, Ask, AskFails, Diff, Deliver, Lose
<1>2. PICK w \in work : AddTell(w) \/ Ask(w) \/ AskFails(w) \/ Diff(w) \/ Deliver(w) \/ Lose(w)
  BY DEF WorkStep
<1>3. IsNumbered(w, started)
  BY <1>2 DEF WorkInv
<1>4. \A calls : IsNumbered(Calling(w.n, calls), started)
  BY <1>3 DEF IsNumbered, Calling
<1>5. \A c, known : IsNumbered(Asked(w.n, c, known), started)
  BY <1>3 DEF IsNumbered, Asked
<1>6. \A calls : GoesOnWith(w, calls) => WorkInv'
  BY <1>1, <1>4 DEF GoesOnWith, GoesOn, Ends, WorkInv
<1>7. CASE AddTell(w) \/ Diff(w) \/ Deliver(w) \/ Lose(w)
  BY <1>6, <1>7 DEF AddTell, Diff, Deliver, Lose
<1>8. CASE Ask(w) \/ AskFails(w)
  BY <1>1, <1>5, <1>8 DEF Ask, AskFails, GoesOn, Ends, WorkInv
<1> QED
  BY <1>2, <1>7, <1>8

LEMMA StartKeepsNumbers ==
  ASSUME WorkInv,
         \/ \E list : Start(Loading(NewWork, list))
         \/ \E c : Start(Asking(NewWork, c))
         \/ \E calls : Start(Calling(NewWork, calls))
  PROVE  WorkInv'
<1>1. PICK w : Start(w) /\ w.stage \in {"loaded", "ask", "push"} /\ w.n = started + 1
  <2> DEFINE Known(w) == w.stage \in {"loaded", "ask", "push"} /\ w.n = started + 1
  <2>1. \A list : Known(Loading(NewWork, list))
    BY DEF Loading, NewWork
  <2>2. \A c : Known(Asking(NewWork, c))
    BY DEF Asking, NewWork
  <2>3. \A calls : Known(Calling(NewWork, calls))
    BY DEF Calling, NewWork
  <2>4. \E w : Start(w) /\ Known(w)
    <3> HIDE DEF Known
    <3> QED
      BY <2>1, <2>2, <2>3
  <2> QED
    BY <2>4
<1>2. started' = started + 1 /\ work' = work \cup {w}
  BY <1>1 DEF Start, NewWork
<1>3. started \in Nat /\ \A v \in work : v.n \in 1 .. started + 1
  BY DEF WorkInv, IsNumbered
<1> QED
  BY <1>1, <1>2, <1>3 DEF WorkInv, IsNumbered

LEMMA CatalogueKeepsNumbers ==
  ASSUME WorkInv, CatalogueCall \/ CatalogueRun
  PROVE  WorkInv'
<1>1. CASE CatalogueRun
  BY <1>1, RunKeepsNumbers DEF CatalogueRun
<1>2. CASE CatalogueCall
  <2>1. CASE \E c : Register(c)
    BY <2>1, StartKeepsNumbers DEF Register
  <2>2. CASE UNCHANGED <<work, started>>
    BY <2>2 DEF WorkInv
  <2>3. CASE \E types : AddDevices(types)
    <3>1. \E list : Start(Loading(NewWork, list))
      BY <2>3 DEF AddDevices
    <3> QED
      BY <3>1, StartKeepsNumbers
  <2>4. CASE \E going, types : Drop(going, types)
    <3>1. (\E calls : Start(Calling(NewWork, calls))) \/ UNCHANGED <<work, started>>
      BY <2>4 DEF Drop
    <3> QED
      BY <2>2, <3>1, StartKeepsNumbers
  <2>5. (\E types : RemoveDevices(types)) \/ (\E a : DeleteDevice(a)) => \E going, types : Drop(going, types)
    BY DEF RemoveDevices, DeleteDevice
  <2> QED
    BY <1>2, <2>1, <2>2, <2>3, <2>4, <2>5 DEF CatalogueCall, Unregister
<1> QED
  BY <1>1, <1>2

LEMMA LifeKeepsNumbers ==
  ASSUME SyncInv, WorkInv, LifeCall \/ LifeRun
  PROVE  WorkInv'
<1>1. CASE UNCHANGED <<work, started>>
  BY <1>1 DEF WorkInv
<1>2. CASE Boot
  BY <1>2 DEF Boot, CatalogueBoot, WorkInv
<1>3. CASE ReannounceClients
  <2>1. PICK order : order = SetToSeq(registered)
    OBVIOUS
  <2>2. PICK n \in Nat : n = Len(order)
    BY <2>1, OrderOfAll DEF SyncInv
  <2>3. /\ started' = started + n
        /\ work' = work \cup {Asking(started + i, order[i]) : i \in 1 .. n}
    BY <1>3, <2>1, <2>2 DEF ReannounceClients
  <2>4. \A i \in 1 .. n : \A c : IsNumbered(Asking(started + i, c), started + n)
    BY DEF WorkInv, IsNumbered, Asking
  <2>5. \A w \in work : IsNumbered(w, started + n)
    BY DEF WorkInv, IsNumbered
  <2> QED
    BY <2>3, <2>4, <2>5 DEF WorkInv
<1>4. CASE ResumeRest
  BY <1>1, <1>3, <1>4 DEF ResumeRest, ForgetClients, catVars
<1>5. CASE UNCHANGED catVars
  BY <1>1, <1>5 DEF catVars
<1> QED
  BY <1>2, <1>4, <1>5 DEF LifeCall, LifeRun

LEMMA WebKeepsNumbers ==
  ASSUME WorkInv, NEW s, Handle(s)
  PROVE  WorkInv'
<1>1. CASE UNCHANGED <<work, started>>
  BY <1>1 DEF WorkInv
<1>2. CASE InterfaceHandler(s)
  <2> DEFINE arg == CallOf(s).arg
  <2>1. CASE interfaceInit(s, arg)
    <3>1. PICK c \in Clients : Register(c) \/ Unregister(c)
      BY <2>1 DEF interfaceInit
    <3> QED
      BY <1>1, <3>1, StartKeepsNumbers DEF Register, Unregister
  <2>2. CASE UNCHANGED catVars
    BY <1>1, <2>2 DEF catVars
  <2> QED
    BY <1>2, <2>1, <2>2 DEF InterfaceHandler
<1>3. CASE ~InterfaceHandler(s)
  <2>1. UNCHANGED rpcVars
    BY <1>3 DEF Handle, SessionHandler, StateHandler, QuietHandler, Looks, Acts, DownloadStatus,
       DownloadData, ListAllDetail
  <2> QED
    BY <1>1, <2>1 DEF rpcVars, catVars
<1> QED
  BY <1>2, <1>3

LEMMA EveryStepKeepsNumbers ==
  ASSUME SyncInv, WorkInv, [Next]_ccuVars
  PROVE  WorkInv'
<1>1. CASE CatalogueCall \/ CatalogueRun
  BY <1>1, CatalogueKeepsNumbers
<1>2. CASE LifeCall \/ LifeRun
  BY <1>2, LifeKeepsNumbers
<1>3. CASE WebRun
  BY <1>3, WebKeepsNumbers DEF WebRun
<1>4. CASE ~(CatalogueCall \/ CatalogueRun \/ LifeCall \/ LifeRun \/ WebRun)
  <2>1. UNCHANGED catVars
    BY <1>4 DEF Next, StoreCall, LinkCall, StoreRun, FaultCall, FaultRun, WebCall, Admission,
       StateCall, StateRun, VirtualCall, VirtualRun, ccuVars
  <2> QED
    BY <2>1 DEF catVars, WorkInv
<1> QED
  BY <1>1, <1>2, <1>3, <1>4

-----------------------------------------------------------------------------
\* Every part of the CCU keeps its type, in any interleaving of its requests,
\* operations, restarts and scenario calls, for every set of clients, devices,
\* descriptions and requests.
THEOREM CcuStaysTyped == Spec => []CcuTypeOK
<1> DEFINE All == SessInv /\ CallsOK /\ StoreInv /\ SyncInv /\ WorkInv /\ HeldInv /\ StateInv
<1>1. Init => All
  <2> SUFFICES ASSUME Init PROVE All
    OBVIOUS
  <2>1. SessInv /\ CallsOK /\ StoreInv
    BY StoreStarts
  <2>2. SyncInv
    BY SyncStarts
  <2>3. WorkInv
    BY DEF Init, CatalogueInit, WorkInv
  <2>4. HeldInv
    BY DEF Init, LifeInit, HeldInv
  <2>5. StateInv
    BY StateStarts DEF Init
  <2> QED
    BY <2>1, <2>2, <2>3, <2>4, <2>5
<1>2. All /\ [Next]_ccuVars => All'
  BY EveryStepKeepsStore, EveryStepKeepsCalls, EveryStepKeepsSessions, EveryStepKeepsSync,
     EveryStepKeepsNumbers, EveryStepKeepsHeld, EveryStepKeepsState
<1>3. All => CcuTypeOK
  <2> SUFFICES ASSUME All PROVE CcuTypeOK
    OBVIOUS
  <2>1. /\ devices \subseteq Addresses
        /\ \A key \in DOMAIN overrides : key[2] \in Kinds(key[1])
        /\ poisoned \subseteq Addresses
        /\ \A key \in dirty : key[2] # "LINK" => key \in DOMAIN overrides
        /\ file = Torn \/ DOMAIN file \subseteq Addresses \X {"VALUES", "MASTER", "LINK"}
    BY DEF StoreInv, GoodStore, IsKey, DirtyStored, IsPoisoned
  <2>2. /\ registered \subseteq Clients
        /\ \A w \in work : w.stage \in {"loaded", "ask", "asked", "push"} /\ w.n \in 1 .. started
    BY DEF SyncInv, RegistrationsOK, SavedOK, StopsOK, WorkInv, IsNumbered
  <2>3. release \in 0 .. releases
    BY DEF HeldInv
  <2>4. DOMAIN sessions \subseteq minted
    BY DEF SessInv, TableInv
  <2>5. /\ Range(sysvars) \cup Range(sysvarByName) \subseteq 1 .. Len(objects)
        /\ Range(inbox) \subseteq Partners
    BY DEF StateInv, IndexInv, InboxInv, Range
  <2> QED
    BY <2>1, <2>2, <2>3, <2>4, <2>5 DEF CcuTypeOK
<1> QED
  BY <1>1, <1>2, <1>3, PTL DEF Spec
=============================================================================
