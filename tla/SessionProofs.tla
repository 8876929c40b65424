--------------------------- MODULE SessionProofs ---------------------------
(* Proofs about Session, for every set of repositories, versions, traces    *)
(* and bounds.                                                              *)
EXTENDS Session, FiniteSetTheorems, TLAPS

-----------------------------------------------------------------------------
(* Maps *)

(* What an insertion does to a map. *)
LEMMA PutFacts ==
  ASSUME NEW map, NEW key, NEW value
  PROVE  /\ DOMAIN Put(map, key, value) = DOMAIN map \cup {key}
         /\ Put(map, key, value)[key] = value
         /\ \A k \in DOMAIN map : k # key => Put(map, key, value)[k] = map[k]
  BY DEF Put

(* What an insertion does to the type of a map. *)
LEMMA PutType ==
  ASSUME NEW V, NEW R, NEW map, DOMAIN map \subseteq R, map \in [DOMAIN map -> V],
         NEW key \in R, NEW value \in V
  PROVE  /\ DOMAIN Put(map, key, value) \subseteq R
         /\ Put(map, key, value) \in [DOMAIN Put(map, key, value) -> V]
  BY DEF Put

-----------------------------------------------------------------------------
(* Control: what is known of the running operation at each step *)

(* The steps belong to their operations, and carry what those need. *)
Control ==
  /\ step # "ready" => task \in Task
  /\ step \in {"ready", "dispatch"} => ensured = 0
  /\ step = "reuse" => task.work.op = "open"
  /\ step = "analyze" => task.work.op \in {"rebuild", "open", "trace"}
  /\ step \in {"scanned", "reparse"} =>
       task.work.op = "refresh" /\ draft \in Draft /\ draft.root = active.root
  /\ step = "analyzed" => draft \in Draft /\ draft.root = Target
  /\ step = "ensure" => task.work.op = "trace"
  /\ step = "ensure" => ensured <= Len(task.work.trace.selectors)
  /\ step \in {"analyze", "analyzed"} /\ task.work.op = "trace" =>
       /\ ensured < Len(task.work.trace.selectors)
       /\ ~Loaded(Target)

TypeInv == TypeOK /\ Control

USE DEF Steps

(* The arguments of an operation have the types its name calls for. *)
LEMMA WorkTypes ==
  ASSUME NEW work \in Work
  PROVE  /\ work.op \in {"read", "rebuild", "refresh", "open", "trace"}
         /\ work.op = "open" => work.root \in Roots /\ work.build \in BOOLEAN
         /\ work.op = "trace" => work.trace \in Traces
  BY DEF Work

LEMMA TraceTypes ==
  ASSUME NEW trace \in Traces
  PROVE  /\ trace.selectors \in Seq(Roots)
         /\ Len(trace.selectors) \in Nat
         /\ \A i \in 1..Len(trace.selectors) : trace.selectors[i] \in Roots
         /\ Selectors(trace) \subseteq Roots
         /\ Selectors(trace) = {trace.selectors[i] : i \in 1..Len(trace.selectors)}
  <1>1. trace.selectors \in Seq(Roots)
    BY SessionAssumption
  <1>2. QED
    BY <1>1 DEF Selectors, Range

LEMMA CapturedType ==
  ASSUME TypeOK, NEW d \in Draft
  PROVE  Captured(d) \in State /\ Captured(d).root = d.root
  BY DEF TypeOK, Captured, Draft, State, Files

(* Preparing the session keeps its types. *)
LEMMA PrepareTypes ==
  ASSUME TypeOK, Prepare, UNCHANGED <<disk, now>>
  PROVE  /\ active' \in State
         /\ DOMAIN known' \subseteq Roots /\ known' \in [DOMAIN known' -> State]
         /\ \A r \in DOMAIN known' : known'[r].root = r
         /\ DOMAIN lastUsed' \subseteq Roots /\ lastUsed' \in [DOMAIN lastUsed' -> Nat]
         /\ \A r \in DOMAIN lastUsed' : lastUsed'[r] <= now'
         /\ toolCache' \in SUBSET Entry
  <1> DEFINE kept == {r \in DOMAIN known : Recent(r)}
             used == {r \in DOMAIN lastUsed : Recent(r)}
  <1>1. /\ known \in [DOMAIN known -> State] /\ DOMAIN known \subseteq Roots
        /\ lastUsed \in [DOMAIN lastUsed -> Nat] /\ DOMAIN lastUsed \subseteq Roots
        /\ active \in State /\ active.root \in Roots /\ now \in Nat
    BY DEF TypeOK, State
  <1>p. /\ known' = Restrict(known, kept) /\ kept \in SUBSET DOMAIN known
        /\ used \in SUBSET DOMAIN lastUsed
    BY DEF Prepare
  <1>q. lastUsed' = Put(Restrict(lastUsed, used), active.root, now)
    BY DEF Prepare
  <1> HIDE DEF kept, used
  <1>2. /\ DOMAIN known' = kept /\ known' \in [kept -> State]
        /\ \A r \in kept : known'[r] = known[r]
    BY <1>1, <1>p DEF Restrict
  <1>3. /\ DOMAIN Restrict(lastUsed, used) = used
        /\ Restrict(lastUsed, used) \in [used -> Nat]
        /\ \A r \in used : Restrict(lastUsed, used)[r] = lastUsed[r]
    BY <1>1, <1>p DEF Restrict
  <1>5. DOMAIN lastUsed' \subseteq Roots /\ lastUsed' \in [DOMAIN lastUsed' -> Nat]
    BY <1>1, <1>3, <1>p, <1>q DEF Put
  <1>6. \A r \in DOMAIN lastUsed' : lastUsed'[r] <= now'
    BY <1>1, <1>3, <1>p, <1>q DEF Put, TypeOK
  <1> QED
    BY <1>1, <1>2, <1>5, <1>6, <1>p DEF Prepare, TypeOK

(* Remembering a state keeps the types of the session. *)
LEMMA RememberTypes ==
  ASSUME TypeOK, UNCHANGED now, NEW state \in State, NEW shelf,
         DOMAIN shelf \subseteq Roots, shelf \in [DOMAIN shelf -> State],
         \A r \in DOMAIN shelf : shelf[r].root = r,
         Remember(shelf, state)
  PROVE  /\ DOMAIN known' \subseteq Roots /\ known' \in [DOMAIN known' -> State]
         /\ \A r \in DOMAIN known' : known'[r].root = r
         /\ DOMAIN lastUsed' \subseteq Roots /\ lastUsed' \in [DOMAIN lastUsed' -> Nat]
         /\ \A r \in DOMAIN lastUsed' : lastUsed'[r] <= now'
         /\ asked' \in [Roots -> Int] /\ \A r \in Roots : asked'[r] <= now'
  <1>1. state.root \in Roots /\ now \in Nat
    BY DEF State, TypeOK
  <1>2. DOMAIN known' \subseteq Roots /\ known' \in [DOMAIN known' -> State]
    BY <1>1, PutType DEF Remember
  <1>3. \A r \in DOMAIN known' : known'[r].root = r
    BY DEF Remember, Put
  <1>4. DOMAIN lastUsed' \subseteq Roots /\ lastUsed' \in [DOMAIN lastUsed' -> Nat]
    BY <1>1 DEF Put, Remember, TypeOK
  <1>5. \A r \in DOMAIN lastUsed' : lastUsed'[r] <= now'
    BY <1>1 DEF Remember, Put, TypeOK
  <1>6. asked' \in [Roots -> Int] /\ \A r \in Roots : asked'[r] <= now'
    BY <1>1 DEF Remember, Served, TypeOK
  <1> QED
    BY <1>2, <1>3, <1>4, <1>5, <1>6

(* Activating a state keeps the types of the session. *)
LEMMA ActivateTypes ==
  ASSUME TypeOK, UNCHANGED now, NEW state \in State, Activate(state)
  PROVE  /\ active' = state /\ toolCache' = {}
         /\ DOMAIN known' \subseteq Roots /\ known' \in [DOMAIN known' -> State]
         /\ \A r \in DOMAIN known' : known'[r].root = r
         /\ DOMAIN lastUsed' \subseteq Roots /\ lastUsed' \in [DOMAIN lastUsed' -> Nat]
         /\ \A r \in DOMAIN lastUsed' : lastUsed'[r] <= now'
         /\ asked' \in [Roots -> Int] /\ \A r \in Roots : asked'[r] <= now'
  <1> DEFINE shelf == Put(known, active.root, active)
  <1>1. active \in State /\ active.root \in Roots
    BY DEF TypeOK, State
  <1>2. DOMAIN shelf \subseteq Roots /\ shelf \in [DOMAIN shelf -> State]
    BY <1>1, PutType DEF TypeOK
  <1>3. \A r \in DOMAIN shelf : shelf[r].root = r
    BY <1>1 DEF TypeOK, Put
  <1>4. active' = state /\ toolCache' = {} /\ Remember(shelf, state)
    BY DEF Activate
  <1> HIDE DEF shelf
  <1> QED
    BY <1>2, <1>3, <1>4, RememberTypes

(* What ending an operation does to the control state. *)
LEMMA FinishTypes ==
  ASSUME TypeOK, task \in Task, active' \in State,
         NEW ok \in BOOLEAN, NEW changed \in BOOLEAN, NEW answer \in Answer \cup {Nothing},
         Finish(ok, changed, answer)
  PROVE  /\ step' = "ready" /\ step' \in Steps
         /\ task' \in Task \cup {Nothing} /\ draft' \in Draft \cup {Nothing}
         /\ ensured' = 0 /\ reply' \in Reply \cup {Nothing}
         /\ Control'
  <1>1. /\ step' = "ready" /\ task' = Nothing /\ draft' = Nothing /\ ensured' = 0
        /\ reply' = [work |-> task.work, ok |-> ok /\ ~task.lateError,
                     changed |-> changed, root |-> active'.root,
                     expected |-> task.expected, answer |-> answer]
    BY DEF Finish
  <1>2. task.work \in Work /\ task.lateError \in BOOLEAN
        /\ task.expected \in Roots \cup {Nothing} /\ active'.root \in Roots
    BY DEF Task, State
  <1>3. reply' \in Reply
    BY <1>1, <1>2 DEF Reply
  <1> QED
    BY <1>1, <1>3 DEF Control

(* A failure leaves the session as it is. *)
LEMMA FailTypes ==
  ASSUME TypeInv, step # "ready", Fail
  PROVE  TypeInv'
  <1>1. UNCHANGED <<disk, writes, now, active, known, lastUsed, toolCache, asked>>
        /\ Finish(FALSE, FALSE, Nothing)
    BY DEF Fail, environment, session
  <1>2. task \in Task /\ TypeOK /\ active' \in State
    BY <1>1 DEF TypeInv, Control, TypeOK
  <1>3. /\ step' \in Steps /\ ensured' = 0
        /\ task' \in Task \cup {Nothing} /\ draft' \in Draft \cup {Nothing}
        /\ reply' \in Reply \cup {Nothing} /\ Control'
    BY <1>1, <1>2, FinishTypes
  <1> QED
    BY <1>1, <1>2, <1>3 DEF TypeInv, TypeOK

(* One more ensured selector of a trace. *)
LEMMA EnsuredTypes ==
  ASSUME TypeOK, UNCHANGED now, NEW r \in Roots, Ensured(r)
  PROVE  /\ DOMAIN lastUsed' = DOMAIN lastUsed \cup {r}
         /\ lastUsed' \in [DOMAIN lastUsed' -> Nat]
         /\ \A k \in DOMAIN lastUsed' : lastUsed'[k] <= now'
         /\ asked' \in [Roots -> Int] /\ \A k \in Roots : asked'[k] <= now'
         /\ step' = "ensure" /\ ensured' = ensured + 1 /\ draft' = Nothing
         /\ task' = task /\ reply' = reply
  BY DEF Ensured, Put, Served, TypeOK

LEMMA AnswerTypes ==
  ASSUME TypeOK, NEW trace \in Traces, \A r \in Selectors(trace) : Loaded(r)
  PROVE  /\ Computed(trace) \in Answer
         /\ [trace |-> trace, revisions |-> Key(trace),
             answer |-> Computed(trace)] \in Entry
  <1>1. Selectors(trace) \in SUBSET Roots
    BY TraceTypes
  <1>2. \A r \in Selectors(trace) :
          /\ KnownState(r).revision \in Sources /\ KnownState(r).content \in Sources
          /\ disk[r].source \in Sources
    BY <1>1 DEF Loaded, KnownState, TypeOK, State, Files
  <1>3. /\ [r \in Selectors(trace) |-> KnownState(r).revision] \in [Selectors(trace) -> Sources]
        /\ [r \in Selectors(trace) |-> KnownState(r).content] \in [Selectors(trace) -> Sources]
        /\ [r \in Selectors(trace) |-> disk[r].source] \in [Selectors(trace) -> Sources]
    BY <1>2
  <1>4. [Selectors(trace) -> Sources] \subseteq Versions
    BY <1>1 DEF Versions
  <1> QED
    BY <1>3, <1>4 DEF Computed, Key, Answer, Entry

-----------------------------------------------------------------------------
(* Type correctness *)

LEMMA InitTypes == Init => TypeInv
<1> SUFFICES ASSUME Init PROVE TypeInv
  OBVIOUS
<1>1. PICK r \in Roots :
        /\ active = Captured([root |-> r, revision |-> disk[r].source,
                              content |-> disk[r].source])
        /\ known = [k \in {r} |-> active]
        /\ lastUsed = [k \in {r} |-> 0]
        /\ asked = [k \in Roots |-> IF k = r THEN 0 ELSE -IdleUnload]
  BY DEF Init
<1>2. active \in State /\ active.root = r
  BY <1>1 DEF Init, Captured, State, Files
<1>3. asked \in [Roots -> Int] /\ \A k \in Roots : asked[k] <= 0
  BY <1>1, SessionAssumption
<1> QED
  BY <1>1, <1>2, <1>3 DEF Init, TypeInv, TypeOK, Control

LEMMA RequestTypes ==
  ASSUME TypeInv, Request
  PROVE  TypeInv'
<1> USE DEF TypeInv
<1>1. ASSUME NEW work \in Work, NEW expected \in Roots \cup {Nothing},
             NEW lateError \in BOOLEAN, NEW valid \in BOOLEAN,
             Call(work, expected, lateError, valid)
      PROVE  TypeInv'
  <2>1. Prepare /\ UNCHANGED <<disk, writes, now, draft, ensured>> /\ step = "ready"
    BY <1>1 DEF Call, environment
  <2>2. /\ active' \in State
        /\ DOMAIN known' \subseteq Roots /\ known' \in [DOMAIN known' -> State]
        /\ \A r \in DOMAIN known' : known'[r].root = r
        /\ DOMAIN lastUsed' \subseteq Roots /\ lastUsed' \in [DOMAIN lastUsed' -> Nat]
        /\ \A r \in DOMAIN lastUsed' : lastUsed'[r] <= now'
        /\ toolCache' \in SUBSET Entry
    BY <2>1, PrepareTypes
  <2>3. CASE valid /\ Expected(expected)
    <3>1. /\ step' = "dispatch" /\ reply' = Nothing /\ Served({active.root})
          /\ task' = [work |-> work, expected |-> expected, lateError |-> lateError]
      BY <1>1, <2>3 DEF Call
    <3>2. task' \in Task
      BY <3>1 DEF Task
    <3>3. asked' \in [Roots -> Int] /\ \A r \in Roots : asked'[r] <= now'
      BY <2>1, <3>1 DEF Served, TypeOK
    <3> QED
      BY <2>1, <2>2, <3>1, <3>2, <3>3 DEF TypeOK, Control
  <2>4. CASE ~(valid /\ Expected(expected))
    <3>1. /\ UNCHANGED <<step, task, asked>>
          /\ reply' = [work |-> work, ok |-> FALSE, changed |-> FALSE,
                       root |-> active.root, expected |-> expected,
                       answer |-> Nothing]
      BY <1>1, <2>4 DEF Call
    <3>2. reply' \in Reply
      BY <3>1 DEF Reply, TypeOK, State
    <3> QED
      BY <2>1, <2>2, <3>1, <3>2 DEF TypeOK, Control
  <2> QED
    BY <2>3, <2>4
<1>2. ASSUME NEW work \in Work, Invoke(work)
      PROVE  TypeInv'
  <2>1. /\ step = "ready" /\ step' = "dispatch" /\ reply' = Nothing
        /\ task' = [work |-> work, expected |-> Nothing, lateError |-> FALSE]
        /\ UNCHANGED <<disk, writes, now, active, known, lastUsed, toolCache,
                       draft, ensured, asked>>
    BY <1>2 DEF Invoke, environment, session
  <2>2. task' \in Task
    BY <2>1 DEF Task
  <2> QED
    BY <2>1, <2>2 DEF TypeOK, Control
<1> QED
  BY <1>1, <1>2 DEF Request

LEMMA EnvironmentTypes ==
  ASSUME TypeInv, Write \/ Tick
  PROVE  TypeInv'
<1>1. UNCHANGED <<active, known, lastUsed, toolCache, step, task, draft, ensured,
                  reply, asked>>
  BY DEF Write, Tick, session, operation
<1>2. disk' \in [Roots -> Files] /\ writes' \in Nat /\ now' \in Nat /\ now <= now'
  BY DEF Write, Tick, TypeInv, TypeOK
<1>3. /\ \A r \in DOMAIN lastUsed : lastUsed[r] <= now'
      /\ \A r \in Roots : asked[r] <= now'
  BY <1>2 DEF TypeInv, TypeOK
<1>4. TypeOK'
  BY <1>1, <1>2, <1>3 DEF TypeInv, TypeOK
<1>5. Control'
  BY <1>1 DEF TypeInv, Control, Target, Loaded
<1> QED
  BY <1>4, <1>5 DEF TypeInv

(* A step that only goes on, with or without preparing the session.         *)
LEMMA ContinueTypes ==
  ASSUME TypeInv, step # "ready", NEW next \in Steps \ {"ready", "dispatch"},
         Continue(next), UNCHANGED <<ensured, asked>>,
         Prepare \/ UNCHANGED session,
         draft' \in Draft \cup {Nothing}
  PROVE  TypeOK' /\ task' \in Task /\ task' = task /\ step' = next
<1>1. /\ step' = next /\ UNCHANGED <<disk, writes, now, task, reply>> /\ step' \in Steps
  BY DEF Continue, environment
<1>2. /\ active' \in State
      /\ DOMAIN known' \subseteq Roots /\ known' \in [DOMAIN known' -> State]
      /\ \A r \in DOMAIN known' : known'[r].root = r
      /\ DOMAIN lastUsed' \subseteq Roots /\ lastUsed' \in [DOMAIN lastUsed' -> Nat]
      /\ \A r \in DOMAIN lastUsed' : lastUsed'[r] <= now'
      /\ toolCache' \in SUBSET Entry
  <2>1. CASE Prepare
    BY <1>1, <2>1, PrepareTypes DEF TypeInv
  <2>2. CASE UNCHANGED session
    BY <1>1, <2>2 DEF session, TypeInv, TypeOK
  <2> QED
    BY <2>1, <2>2
<1> QED
  BY <1>1, <1>2 DEF TypeInv, TypeOK, Control

(* An operation that ends well, having activated a state.                   *)
LEMMA ActivatedTypes ==
  ASSUME TypeInv, step # "ready", NEW state \in State, Activate(state),
         NEW changed \in BOOLEAN, Finish(TRUE, changed, Nothing), UNCHANGED environment
  PROVE  TypeInv'
<1>1. UNCHANGED <<disk, writes, now>> /\ task \in Task /\ TypeOK
  BY DEF environment, TypeInv, Control
<1>2. /\ active' = state /\ toolCache' = {}
      /\ DOMAIN known' \subseteq Roots /\ known' \in [DOMAIN known' -> State]
      /\ \A r \in DOMAIN known' : known'[r].root = r
      /\ DOMAIN lastUsed' \subseteq Roots /\ lastUsed' \in [DOMAIN lastUsed' -> Nat]
      /\ \A r \in DOMAIN lastUsed' : lastUsed'[r] <= now'
      /\ asked' \in [Roots -> Int] /\ \A r \in Roots : asked'[r] <= now'
  BY <1>1, ActivateTypes
<1>3. /\ step' \in Steps /\ ensured' = 0
      /\ task' \in Task \cup {Nothing} /\ draft' \in Draft \cup {Nothing}
      /\ reply' \in Reply \cup {Nothing} /\ Control'
  BY <1>1, <1>2, FinishTypes
<1> QED
  BY <1>1, <1>2, <1>3 DEF TypeInv, TypeOK

(* The root an operation scans is a root. *)
LEMMA TargetType ==
  ASSUME TypeInv, step # "ready",
         task.work.op = "trace" => ensured < Len(task.work.trace.selectors)
  PROVE  Target \in Roots
<1>1. task \in Task /\ task.work \in Work /\ active.root \in Roots /\ ensured \in Nat
  BY DEF TypeInv, TypeOK, Control, Task, State
<1>2. CASE task.work.op = "trace"
  <2>1. /\ task.work.trace.selectors \in Seq(Roots)
        /\ ensured + 1 \in 1..Len(task.work.trace.selectors)
    BY <1>1, <1>2, WorkTypes, TraceTypes
  <2> QED
    BY <1>2, <2>1 DEF Target
<1>3. CASE task.work.op = "open"
  BY <1>1, <1>3, WorkTypes DEF Target
<1>4. CASE task.work.op \notin {"open", "trace"}
  BY <1>1, <1>4 DEF Target
<1> QED
  BY <1>2, <1>3, <1>4

(* Reading the sources of the target gives a draft. *)
LEMMA DraftType ==
  ASSUME TypeOK, NEW r \in Roots
  PROVE  [root |-> r, revision |-> disk[r].source, content |-> disk[r].source] \in Draft
  BY DEF TypeOK, Files, Draft

LEMMA EngineTypes ==
  ASSUME TypeInv, Engine
  PROVE  TypeInv'
<1> USE DEF TypeInv
<1>0. TypeOK /\ Control
  OBVIOUS
<1>1. CASE Read
  <2>1. /\ step # "ready" /\ UNCHANGED <<disk, writes, now, active, known, lastUsed, toolCache, asked>>
        /\ task \in Task
    BY <1>0, <1>1 DEF Read, Dispatched, environment, session, Control
  <2>2. PICK ok \in BOOLEAN : Finish(ok, FALSE, Nothing)
    BY <1>1 DEF Read
  <2>3. active' \in State
    BY <2>1 DEF TypeOK
  <2>4. /\ step' \in Steps /\ ensured' = 0
        /\ task' \in Task \cup {Nothing} /\ draft' \in Draft \cup {Nothing}
        /\ reply' \in Reply \cup {Nothing} /\ Control'
    BY <1>0, <2>1, <2>2, <2>3, FinishTypes
  <2> QED
    BY <2>1, <2>4 DEF TypeOK
<1>2. CASE Rebuild
  <2>1. step = "dispatch" /\ task.work.op = "rebuild"
    BY <1>2 DEF Rebuild, Dispatched
  <2>2. CASE Prepare /\ Continue("analyze") /\ UNCHANGED <<draft, ensured, asked>>
    <3>1. TypeOK' /\ task' \in Task /\ task' = task /\ step' = "analyze"
      BY <2>1, <2>2, ContinueTypes DEF TypeOK
    <3> QED
      BY <2>1, <3>1 DEF Control
  <2> QED
    BY <1>2, <2>1, <2>2, FailTypes DEF Rebuild
<1>3. CASE Open
  <2>1. /\ step = "dispatch" /\ task.work.op = "open"
        /\ Prepare /\ UNCHANGED <<draft, ensured, asked>>
        /\ Continue(IF task.work.build THEN "analyze" ELSE "reuse")
    BY <1>3 DEF Open, Dispatched
  <2>2. TypeOK' /\ task' \in Task /\ task' = task
        /\ step' = IF task.work.build THEN "analyze" ELSE "reuse"
    BY <2>1, ContinueTypes DEF TypeOK
  <2> QED
    BY <2>1, <2>2 DEF Control
<1>4. CASE Reuse
  <2> DEFINE r == task.work.root
  <2>1. /\ step = "reuse" /\ task \in Task /\ task.work.op = "open"
    BY <1>4 DEF Reuse, Control
  <2>2. CASE Fail
    BY <2>1, <2>2, FailTypes
  <2>3. CASE /\ r = active.root
             /\ UNCHANGED <<environment, session>>
             /\ Finish(TRUE, FALSE, Nothing)
             /\ Served({r})
    <3>1. UNCHANGED <<disk, writes, now, active, known, lastUsed, toolCache>>
          /\ active' \in State
      BY <2>3 DEF environment, session, TypeOK
    <3>2. /\ step' \in Steps /\ ensured' = 0
          /\ task' \in Task \cup {Nothing} /\ draft' \in Draft \cup {Nothing}
          /\ reply' \in Reply \cup {Nothing} /\ Control'
      BY <1>0, <2>1, <2>3, <3>1, FinishTypes
    <3>3. asked' \in [Roots -> Int] /\ \A k \in Roots : asked'[k] <= now'
      BY <2>3, <3>1 DEF Served, TypeOK
    <3> QED
      BY <3>1, <3>2, <3>3 DEF TypeOK
  <2>4. CASE /\ r # active.root /\ r \in DOMAIN known
             /\ Activate(known[r])
             /\ Finish(TRUE, FALSE, Nothing)
             /\ UNCHANGED environment
    <3>1. known[r] \in State
      BY <2>4 DEF TypeOK
    <3> QED
      BY <2>1, <2>4, <3>1, ActivatedTypes
  <2>5. CASE /\ ~Loaded(r)
             /\ Continue("analyze")
             /\ UNCHANGED <<session, draft, ensured, asked>>
    <3>1. TypeOK' /\ task' \in Task /\ task' = task /\ step' = "analyze"
      BY <2>1, <2>5, ContinueTypes DEF TypeOK
    <3> QED
      BY <2>1, <3>1 DEF Control
  <2> QED
    BY <1>4, <2>2, <2>3, <2>4, <2>5 DEF Reuse
<1>5. CASE Analyze
  <2>1. /\ step = "analyze" /\ task \in Task /\ task.work.op \in {"rebuild", "open", "trace"}
        /\ Target \in Roots
    BY <1>5, TargetType DEF Analyze, Control
  <2>2. CASE /\ draft' = [root |-> Target, revision |-> disk[Target].source,
                          content |-> disk[Target].source]
             /\ Continue("analyzed")
             /\ UNCHANGED <<session, ensured, asked>>
    <3>1. draft' \in Draft /\ draft'.root = Target
      BY <2>1, <2>2, DraftType
    <3>2. TypeOK' /\ task' \in Task /\ task' = task /\ step' = "analyzed"
      BY <2>1, <2>2, <3>1, ContinueTypes
    <3>3. Target' = Target /\ (Loaded(Target))' = Loaded(Target)
      BY <2>2, <3>2 DEF Target, Loaded, session
    <3> QED
      BY <2>1, <2>2, <3>1, <3>2, <3>3 DEF Control
  <2> QED
    BY <1>5, <2>1, <2>2, FailTypes DEF Analyze
<1>6. CASE Install
  <2>1. /\ step = "analyzed" /\ task \in Task /\ draft \in Draft
        /\ UNCHANGED <<disk, writes, now>> /\ UNCHANGED environment
        /\ Captured(draft) \in State /\ Captured(draft).root = draft.root
        /\ draft.root \in Roots
    BY <1>6, CapturedType DEF Install, Control, environment, Draft
  <2>2. CASE task.work.op = "trace"
    <3>1. /\ known' = Put(known, draft.root, Captured(draft))
          /\ Ensured(draft.root) /\ UNCHANGED <<active, toolCache>>
          /\ ensured < Len(task.work.trace.selectors)
      BY <1>6, <2>1, <2>2 DEF Install, Control
    <3>2. /\ DOMAIN known' \subseteq Roots /\ known' \in [DOMAIN known' -> State]
          /\ \A r \in DOMAIN known' : known'[r].root = r
      BY <2>1, <3>1 DEF Put, TypeOK
    <3>3. /\ DOMAIN lastUsed' = DOMAIN lastUsed \cup {draft.root}
          /\ lastUsed' \in [DOMAIN lastUsed' -> Nat]
          /\ \A k \in DOMAIN lastUsed' : lastUsed'[k] <= now'
          /\ asked' \in [Roots -> Int] /\ \A k \in Roots : asked'[k] <= now'
          /\ step' = "ensure" /\ ensured' = ensured + 1 /\ draft' = Nothing
          /\ task' = task /\ reply' = reply
      BY <1>0, <2>1, <3>1, EnsuredTypes
    <3>4. Len(task.work.trace.selectors) \in Nat
      BY <2>1, <2>2, WorkTypes, TraceTypes DEF Task
    <3> QED
      BY <2>1, <2>2, <3>1, <3>2, <3>3, <3>4 DEF TypeOK, Control
  <2>3. CASE task.work.op # "trace"
    <3>1. Activate(Captured(draft)) /\ Finish(TRUE, TRUE, Nothing)
      BY <1>6, <2>3 DEF Install
    <3> QED
      BY <2>1, <3>1, ActivatedTypes
  <2> QED
    BY <2>2, <2>3
<1>7. CASE Refresh
  <2>1. /\ step = "dispatch" /\ task \in Task /\ task.work.op = "refresh"
        /\ Target = active.root /\ Target \in Roots
    BY <1>7, TargetType DEF Refresh, Dispatched, Control, Target
  <2>2. CASE /\ draft' = [root |-> Target, revision |-> disk[Target].source,
                          content |-> disk[Target].source]
             /\ Continue("scanned")
             /\ UNCHANGED <<session, ensured, asked>>
    <3>1. draft' \in Draft /\ draft'.root = active.root
      BY <2>1, <2>2, DraftType
    <3>2. TypeOK' /\ task' \in Task /\ task' = task /\ step' = "scanned"
      BY <2>1, <2>2, <3>1, ContinueTypes
    <3> QED
      BY <2>1, <2>2, <3>1, <3>2 DEF Control, session
  <2> QED
    BY <1>7, <2>1, <2>2, FailTypes DEF Refresh
<1>8. CASE Compare
  <2> DEFINE fresh == [Captured(draft) EXCEPT !.content = active.content]
             changed == Generation(fresh) # Generation(active)
  <2>1. /\ step = "scanned" /\ task \in Task /\ task.work.op = "refresh"
        /\ draft \in Draft /\ draft.root = active.root
    BY <1>8 DEF Compare, Control
  <2>2. fresh \in State /\ fresh.root = active.root /\ changed \in BOOLEAN
    BY <2>1, CapturedType DEF State, TypeOK
  <2>3. CASE draft.revision = active.revision
    <3>1. /\ active' = fresh /\ Remember(known, fresh)
          /\ toolCache' = IF changed THEN {} ELSE toolCache
          /\ Finish(TRUE, changed, Nothing)
          /\ UNCHANGED <<disk, writes, now>>
      BY <1>8, <2>3 DEF Compare, environment
    <3> HIDE DEF fresh, changed
    <3>2. /\ DOMAIN known' \subseteq Roots /\ known' \in [DOMAIN known' -> State]
          /\ \A r \in DOMAIN known' : known'[r].root = r
          /\ DOMAIN lastUsed' \subseteq Roots /\ lastUsed' \in [DOMAIN lastUsed' -> Nat]
          /\ \A r \in DOMAIN lastUsed' : lastUsed'[r] <= now'
          /\ asked' \in [Roots -> Int] /\ \A r \in Roots : asked'[r] <= now'
      BY <1>0, <2>2, <3>1, RememberTypes DEF TypeOK
    <3>3. /\ step' \in Steps /\ ensured' = 0
          /\ task' \in Task \cup {Nothing} /\ draft' \in Draft \cup {Nothing}
          /\ reply' \in Reply \cup {Nothing} /\ Control'
      BY <1>0, <2>1, <2>2, <3>1, FinishTypes
    <3> QED
      BY <2>2, <3>1, <3>2, <3>3 DEF TypeOK
  <2>4. CASE draft.revision # active.revision
    <3>1. Continue("reparse") /\ UNCHANGED <<session, draft, ensured, asked>>
      BY <1>8, <2>4 DEF Compare
    <3>2. TypeOK' /\ task' \in Task /\ task' = task /\ step' = "reparse"
      BY <2>1, <3>1, ContinueTypes DEF TypeOK
    <3> QED
      BY <2>1, <3>1, <3>2 DEF Control, session
  <2> QED
    BY <2>3, <2>4
<1>9. CASE Reparse
  <2>1. /\ step = "reparse" /\ task \in Task /\ task.work.op = "refresh"
        /\ draft \in Draft /\ draft.root = active.root
    BY <1>9 DEF Reparse, Control
  <2>2. CASE /\ draft' = [draft EXCEPT !.content = disk[draft.root].source]
             /\ Continue("analyzed")
             /\ UNCHANGED <<session, ensured, asked>>
    <3>1. draft' \in Draft
      BY <2>1, <2>2 DEF Draft, TypeOK, Files
    <3>2. TypeOK' /\ task' \in Task /\ task' = task /\ step' = "analyzed"
      BY <2>1, <2>2, <3>1, ContinueTypes
    <3>3. draft'.root = Target'
      BY <2>1, <2>2, <3>2 DEF Target, session, Draft
    <3> QED
      BY <2>1, <3>1, <3>2, <3>3 DEF Control
  <2> QED
    BY <1>9, <2>1, <2>2, FailTypes DEF Reparse
<1>10. CASE Trace
  <2>1. /\ step = "dispatch" /\ task \in Task /\ task.work.op = "trace" /\ ensured = 0
        /\ Len(task.work.trace.selectors) \in Nat
    BY <1>10, WorkTypes, TraceTypes DEF Trace, Dispatched, Control, Task
  <2>2. CASE Continue("ensure") /\ UNCHANGED <<session, draft, ensured, asked>>
    <3>1. TypeOK' /\ task' \in Task /\ task' = task /\ step' = "ensure"
      BY <2>1, <2>2, ContinueTypes DEF TypeOK
    <3> QED
      BY <2>1, <2>2, <3>1 DEF Control
  <2> QED
    BY <1>10, <2>1, <2>2, FailTypes DEF Trace
<1>11. CASE Ensure
  <2>1. /\ step = "ensure" /\ task \in Task /\ task.work.op = "trace"
        /\ ensured < Len(task.work.trace.selectors)
        /\ Len(task.work.trace.selectors) \in Nat
        /\ Target \in Roots
    BY <1>11, WorkTypes, TraceTypes, TargetType DEF Ensure, Control, Task
  <2>2. CASE /\ Loaded(Target)
             /\ Ensured(Target)
             /\ UNCHANGED <<environment, active, known, toolCache>>
    <3>1. /\ DOMAIN lastUsed' = DOMAIN lastUsed \cup {Target}
          /\ lastUsed' \in [DOMAIN lastUsed' -> Nat]
          /\ \A k \in DOMAIN lastUsed' : lastUsed'[k] <= now'
          /\ asked' \in [Roots -> Int] /\ \A k \in Roots : asked'[k] <= now'
          /\ step' = "ensure" /\ ensured' = ensured + 1 /\ draft' = Nothing
          /\ task' = task /\ reply' = reply
          /\ UNCHANGED <<disk, writes, now>>
      BY <1>0, <2>1, <2>2, EnsuredTypes DEF environment
    <3> QED
      BY <2>1, <2>2, <3>1 DEF TypeOK, Control
  <2>3. CASE /\ ~Loaded(Target)
             /\ Continue("analyze")
             /\ UNCHANGED <<session, draft, ensured, asked>>
    <3>1. TypeOK' /\ task' \in Task /\ task' = task /\ step' = "analyze"
      BY <2>1, <2>3, ContinueTypes DEF TypeOK
    <3>2. Target' = Target /\ (Loaded(Target))' = Loaded(Target)
      BY <2>3, <3>1 DEF Target, Loaded, session
    <3> QED
      BY <2>1, <2>3, <3>1, <3>2 DEF Control
  <2> QED
    BY <1>11, <2>1, <2>2, <2>3, FailTypes DEF Ensure
<1>12. CASE Respond
  <2> DEFINE trace == task.work.trace
             entry == [trace |-> trace, revisions |-> Key(trace),
                       answer |-> Computed(trace)]
  <2>1. /\ step = "ensure" /\ task \in Task /\ task.work.op = "trace"
        /\ trace \in Traces
        /\ UNCHANGED <<disk, writes, now, asked>>
    BY <1>12, WorkTypes DEF Respond, Control, Task, environment
  <2>2. /\ UNCHANGED <<active, known, lastUsed>>
        /\ \/ /\ UNCHANGED toolCache
              /\ \/ \E e \in Hits(trace) : Finish(TRUE, FALSE, e.answer)
                 \/ Finish(FALSE, FALSE, Nothing)
           \/ /\ \A r \in Selectors(trace) : Loaded(r)
              /\ Finish(TRUE, FALSE, Computed(trace))
              /\ toolCache' = IF trace.runtime THEN toolCache ELSE Remembered(entry)
    BY <1>12 DEF Respond, session
  <2>3. \A e \in Hits(trace) : e.answer \in Answer
    BY DEF Hits, TypeOK, Entry
  <2>4. (\A r \in Selectors(trace) : Loaded(r)) =>
          Computed(trace) \in Answer /\ entry \in Entry
    BY <1>0, <2>1, AnswerTypes
  <2>5. \E ok \in BOOLEAN, answer \in Answer \cup {Nothing} : Finish(ok, FALSE, answer)
    BY <2>2, <2>3, <2>4
  <2>6. active' \in State
    BY <2>2 DEF TypeOK
  <2>7. /\ step' \in Steps /\ ensured' = 0
        /\ task' \in Task \cup {Nothing} /\ draft' \in Draft \cup {Nothing}
        /\ reply' \in Reply \cup {Nothing} /\ Control'
    BY <1>0, <2>1, <2>5, <2>6, FinishTypes
  <2>8. toolCache' \in SUBSET Entry
    BY <2>2, <2>4 DEF Remembered, TypeOK
  <2> QED
    BY <2>1, <2>2, <2>6, <2>7, <2>8 DEF TypeOK
<1> QED
  BY <1>1, <1>2, <1>3, <1>4, <1>5, <1>6, <1>7, <1>8, <1>9, <1>10, <1>11, <1>12 DEF Engine

LEMMA StutterTypes ==
  ASSUME TypeInv, UNCHANGED vars
  PROVE  TypeInv'
<1>1. UNCHANGED <<disk, writes, now, active, known, lastUsed, toolCache, step, task,
                  draft, ensured, reply, asked>>
  BY DEF vars, environment, session, operation
<1> QED
  BY <1>1 DEF TypeInv, TypeOK, Control, Target, Loaded

(* Every variable of a session keeps its type, and every step belongs to    *)
(* the operation it can be a step of, in every behaviour.                   *)
THEOREM TypesAlways == Spec => [](TypeOK /\ Control)
<1>1. Init => TypeInv
  BY InitTypes
<1>2. TypeInv /\ [Next]_vars => TypeInv'
  BY EngineTypes, RequestTypes, EnvironmentTypes, StutterTypes DEF Next
<1>3. TypeInv => TypeOK /\ Control
  BY DEF TypeInv
<1> QED
  BY <1>1, <1>2, <1>3, PTL DEF Spec

-----------------------------------------------------------------------------
(* What a step can do to the loaded graphs and the answers *)

LoadStep ==
  \E s \in State :
    /\ ~Loaded(s.root)
    /\ known' = Put(known, s.root, s) /\ lastUsed' = Put(lastUsed, s.root, now)
    /\ UNCHANGED <<active, toolCache>>

TouchStep ==
  \E r \in Roots :
    /\ Loaded(r) /\ lastUsed' = Put(lastUsed, r, now)
    /\ UNCHANGED <<active, known, toolCache>>

ActivateStep == \E s \in State : Activate(s)

EvidenceStep ==
  \E s \in State :
    /\ s.root = active.root /\ GraphOf(s) = GraphOf(active)
    /\ active' = s
    /\ known' = Put(known, s.root, s) /\ lastUsed' = Put(lastUsed, s.root, now)
    /\ toolCache' \in {toolCache, {}}

AnswerStep ==
  \E trace \in Traces :
    /\ \A r \in Selectors(trace) : Loaded(r)
    /\ toolCache' = Remembered([trace |-> trace, revisions |-> Key(trace),
                                answer |-> Computed(trace)])
    /\ UNCHANGED <<active, known, lastUsed>>

(* Every step of the session is one of these: no handler does anything else *)
(* to the graphs or the answers.                                            *)
LEMMA StepKinds ==
  ASSUME TypeInv, [Next]_vars
  PROVE  \/ UNCHANGED session \/ Prepare
         \/ LoadStep \/ TouchStep \/ ActivateStep \/ EvidenceStep \/ AnswerStep
<1>0. TypeOK /\ Control
  BY DEF TypeInv
<1>1. CASE UNCHANGED vars
  BY <1>1 DEF vars, session
<1>2. CASE Write \/ Tick
  BY <1>2 DEF Write, Tick
<1>3. CASE Request
  BY <1>3 DEF Request, Call, Invoke
<1>4. CASE Read \/ Rebuild \/ Open \/ Analyze \/ Refresh \/ Reparse \/ Trace
  BY <1>4 DEF Read, Rebuild, Open, Analyze, Refresh, Reparse, Trace, Fail
<1>5. CASE Reuse
  <2>1. CASE task.work.root \in DOMAIN known /\ Activate(known[task.work.root])
    BY <1>0, <2>1 DEF ActivateStep, TypeOK
  <2>2. CASE UNCHANGED session
    BY <2>2
  <2> QED
    BY <1>5, <2>1, <2>2 DEF Reuse, Fail, session
<1>6. CASE Install
  <2>1. draft \in Draft /\ Captured(draft) \in State /\ Captured(draft).root = draft.root
    BY <1>0, <1>6, CapturedType DEF Install, Control
  <2>2. CASE task.work.op = "trace"
    <3>1. ~Loaded(draft.root)
      BY <1>0, <1>6, <2>2 DEF Install, Control
    <3> QED
      BY <1>6, <2>1, <2>2, <3>1 DEF Install, Ensured, LoadStep
  <2>3. CASE task.work.op # "trace"
    BY <1>6, <2>1, <2>3 DEF Install, ActivateStep
  <2> QED
    BY <2>2, <2>3
<1>7. CASE Compare
  <2> DEFINE fresh == [Captured(draft) EXCEPT !.content = active.content]
             changed == Generation(fresh) # Generation(active)
  <2>1. draft \in Draft /\ draft.root = active.root
    BY <1>0, <1>7 DEF Compare, Control
  <2>2. CASE draft.revision = active.revision
    <3>1. /\ fresh \in State /\ fresh.root = active.root
          /\ fresh.revision = draft.revision /\ fresh.content = active.content
      BY <1>0, <2>1, CapturedType DEF State, TypeOK, Captured
    <3>2. /\ active' = fresh /\ Remember(known, fresh)
          /\ toolCache' = IF changed THEN {} ELSE toolCache
      BY <1>7, <2>2 DEF Compare
    <3> HIDE DEF fresh, changed
    <3> QED
      BY <2>2, <3>1, <3>2 DEF EvidenceStep, GraphOf, Remember
  <2>3. CASE draft.revision # active.revision
    BY <1>7, <2>3 DEF Compare
  <2> QED
    BY <2>2, <2>3
<1>8. CASE Ensure
  <2>1. Target \in Roots
    BY <1>0, <1>8, TargetType DEF Ensure, TypeInv
  <2> QED
    BY <1>8, <2>1 DEF Ensure, Fail, Ensured, TouchStep
<1>9. CASE Respond
  <2>1. task.work.trace \in Traces
    BY <1>0, <1>9, WorkTypes DEF Respond, Control, Task
  <2> QED
    BY <1>9, <2>1 DEF Respond, AnswerStep, session
<1> QED
  BY <1>1, <1>2, <1>3, <1>4, <1>5, <1>6, <1>7, <1>8, <1>9 DEF Next, Engine

-----------------------------------------------------------------------------
(* Coherence of the two maps and the answers *)

Coherent == LiveStateRemembered /\ LoadedIffTimed /\ CachedAnswersAreLoaded

CoherentInv == TypeInv /\ Coherent

(* A step that leaves alone the graphs an answer is about leaves the answer *)
(* true.                                                                    *)
LEMMA AnswersKept ==
  ASSUME CachedAnswersAreLoaded, toolCache' \subseteq toolCache,
         \A r : Loaded(r) => Loaded(r)' /\ GraphOf(KnownState(r))' = GraphOf(KnownState(r))
  PROVE  CachedAnswersAreLoaded'
<1> SUFFICES ASSUME NEW e \in toolCache, NEW r \in Selectors(e.trace)
             PROVE  /\ Loaded(r)'
                    /\ (KnownState(r).revision = e.revisions[r])'
                    /\ (KnownState(r).content = e.answer.graphs[r])'
  BY DEF CachedAnswersAreLoaded
<1>1. /\ Loaded(r) /\ KnownState(r).revision = e.revisions[r]
      /\ KnownState(r).content = e.answer.graphs[r]
  BY DEF CachedAnswersAreLoaded
<1>2. Loaded(r)' /\ GraphOf(KnownState(r))' = GraphOf(KnownState(r))
  BY <1>1
<1> QED
  BY <1>1, <1>2 DEF GraphOf

LEMMA InitCoherent == Init => Coherent
<1> SUFFICES ASSUME Init PROVE Coherent
  OBVIOUS
<1>1. PICK r \in Roots :
        /\ active = Captured([root |-> r, revision |-> disk[r].source,
                              content |-> disk[r].source])
        /\ known = [k \in {r} |-> active]
        /\ lastUsed = [k \in {r} |-> 0]
  BY DEF Init
<1> QED
  BY <1>1 DEF Init, Coherent, LiveStateRemembered, LoadedIffTimed,
              CachedAnswersAreLoaded, Captured

LEMMA StepCoherent ==
  ASSUME CoherentInv, [Next]_vars
  PROVE  Coherent'
<1> USE DEF CoherentInv, Coherent
<1>0. /\ TypeOK /\ TypeInv /\ LiveStateRemembered /\ LoadedIffTimed /\ CachedAnswersAreLoaded
      /\ active \in State /\ active.root \in DOMAIN known /\ known[active.root] = active
      /\ DOMAIN known = DOMAIN lastUsed
  BY DEF TypeInv, TypeOK, LiveStateRemembered, LoadedIffTimed
<1>1. CASE UNCHANGED session
  <2>1. UNCHANGED <<active, known, lastUsed, toolCache>>
    BY <1>1 DEF session
  <2> QED
    BY <2>1, <1>0, AnswersKept
       DEF LiveStateRemembered, LoadedIffTimed, Loaded, KnownState
<1>2. CASE Prepare
  <2> DEFINE kept == {r \in DOMAIN known : Recent(r)}
             used == {r \in DOMAIN lastUsed : Recent(r)}
  <2>1. /\ known' = Restrict(known, kept) /\ active' = active
        /\ lastUsed' = Put(Restrict(lastUsed, used), active.root, now)
        /\ toolCache' = IF kept = DOMAIN known THEN toolCache ELSE {}
    BY <1>2 DEF Prepare
  <2>2. used = kept /\ active.root \in kept
    BY <1>0 DEF Recent
  <2>3. kept \subseteq DOMAIN known
    OBVIOUS
  <2> HIDE DEF kept, used
  <2>4. /\ DOMAIN known' = kept /\ \A r \in kept : known'[r] = known[r]
        /\ DOMAIN lastUsed' = kept
    BY <2>1, <2>2 DEF Restrict, Put
  <2>5. LiveStateRemembered' /\ LoadedIffTimed'
    BY <1>0, <2>1, <2>2, <2>4 DEF LiveStateRemembered, LoadedIffTimed
  <2>6. CASE kept = DOMAIN known
    BY <1>0, <2>1, <2>4, <2>5, <2>6, AnswersKept DEF Loaded, KnownState
  <2>7. CASE kept # DOMAIN known
    BY <2>1, <2>5, <2>7 DEF CachedAnswersAreLoaded
  <2> QED
    BY <2>6, <2>7
<1>3. CASE LoadStep
  <2>1. PICK s \in State :
          /\ ~Loaded(s.root)
          /\ known' = Put(known, s.root, s) /\ lastUsed' = Put(lastUsed, s.root, now)
          /\ active' = active /\ toolCache' = toolCache
    BY <1>3 DEF LoadStep
  <2>2. /\ DOMAIN known' = DOMAIN known \cup {s.root}
        /\ DOMAIN lastUsed' = DOMAIN lastUsed \cup {s.root}
        /\ \A r \in DOMAIN known : known'[r] = known[r]
        /\ s.root # active.root
    BY <2>1 DEF Put, Loaded
  <2>3. LiveStateRemembered' /\ LoadedIffTimed'
    BY <1>0, <2>1, <2>2 DEF LiveStateRemembered, LoadedIffTimed
  <2> QED
    BY <1>0, <2>1, <2>2, <2>3, AnswersKept DEF Loaded, KnownState
<1>4. CASE TouchStep
  <2>1. PICK r \in Roots :
          /\ Loaded(r) /\ lastUsed' = Put(lastUsed, r, now)
          /\ UNCHANGED <<active, known, toolCache>>
    BY <1>4 DEF TouchStep
  <2>2. DOMAIN lastUsed' = DOMAIN known
    BY <1>0, <2>1 DEF Put, Loaded
  <2> QED
    BY <1>0, <2>1, <2>2, AnswersKept
       DEF Loaded, KnownState, LiveStateRemembered, LoadedIffTimed
<1>5. CASE ActivateStep
  <2>1. PICK s \in State : Activate(s)
    BY <1>5 DEF ActivateStep
  <2>2. /\ active' = s /\ toolCache' = {}
        /\ known' = Put(Put(known, active.root, active), s.root, s)
        /\ lastUsed' = Put(lastUsed, s.root, now)
    BY <2>1 DEF Activate, Remember
  <2>3. /\ DOMAIN known' = DOMAIN known \cup {s.root} /\ known'[s.root] = s
        /\ DOMAIN lastUsed' = DOMAIN known \cup {s.root}
    BY <1>0, <2>2 DEF Put
  <2> QED
    BY <2>2, <2>3 DEF LiveStateRemembered, LoadedIffTimed, CachedAnswersAreLoaded
<1>6. CASE EvidenceStep
  <2>1. PICK s \in State :
          /\ s.root = active.root /\ GraphOf(s) = GraphOf(active)
          /\ active' = s
          /\ known' = Put(known, s.root, s) /\ lastUsed' = Put(lastUsed, s.root, now)
          /\ toolCache' \in {toolCache, {}}
    BY <1>6 DEF EvidenceStep
  <2>2. /\ DOMAIN known' = DOMAIN known /\ known'[s.root] = s
        /\ DOMAIN lastUsed' = DOMAIN known
        /\ \A r \in DOMAIN known : r # s.root => known'[r] = known[r]
    BY <1>0, <2>1 DEF Put
  <2>3. LiveStateRemembered' /\ LoadedIffTimed'
    BY <2>1, <2>2 DEF LiveStateRemembered, LoadedIffTimed
  <2>4. \A r : Loaded(r) => Loaded(r)' /\ GraphOf(KnownState(r))' = GraphOf(KnownState(r))
    BY <2>1, <2>2 DEF Loaded, KnownState, GraphOf
  <2> QED
    BY <1>0, <2>1, <2>3, <2>4, AnswersKept
<1>7. CASE AnswerStep
  <2>1. PICK trace \in Traces :
          /\ \A r \in Selectors(trace) : Loaded(r)
          /\ toolCache' = Remembered([trace |-> trace, revisions |-> Key(trace),
                                      answer |-> Computed(trace)])
          /\ UNCHANGED <<active, known, lastUsed>>
    BY <1>7 DEF AnswerStep
  <2>2. LiveStateRemembered' /\ LoadedIffTimed'
    BY <1>0, <2>1 DEF LiveStateRemembered, LoadedIffTimed
  <2>3. \A r : Loaded(r)' = Loaded(r) /\ KnownState(r)' = KnownState(r)
    BY <2>1 DEF Loaded, KnownState
  <2>4. ASSUME NEW e \in toolCache', NEW r \in Selectors(e.trace)
        PROVE  /\ Loaded(r) /\ KnownState(r).revision = e.revisions[r]
               /\ KnownState(r).content = e.answer.graphs[r]
    <3>1. CASE e \in toolCache
      BY <1>0, <3>1, <2>4 DEF CachedAnswersAreLoaded
    <3>2. CASE e \notin toolCache
      <4>1. e = [trace |-> trace, revisions |-> Key(trace), answer |-> Computed(trace)]
        BY <2>1, <2>4, <3>2 DEF Remembered
      <4> QED
        BY <2>1, <2>4, <4>1 DEF Key, Computed
    <3> QED
      BY <3>1, <3>2
  <2> QED
    BY <2>2, <2>3, <2>4 DEF CachedAnswersAreLoaded
<1> QED
  BY <1>0, <1>1, <1>2, <1>3, <1>4, <1>5, <1>6, <1>7, StepKinds

LEMMA CoherenceInvariant == Spec => []CoherentInv
<1>1. Init => CoherentInv
  BY InitTypes, InitCoherent DEF CoherentInv
<1>2. CoherentInv /\ [Next]_vars => CoherentInv'
  BY EngineTypes, RequestTypes, EnvironmentTypes, StutterTypes, StepCoherent
     DEF Next, CoherentInv
<1> QED
  BY <1>1, <1>2, PTL DEF Spec

(* In every session, whatever the repositories, the writers and the order   *)
(* of the operations, no cached answer is about a graph that is not loaded. *)
THEOREM AnswersNeverStale == Spec => []CachedAnswersAreLoaded
<1>1. CoherentInv => CachedAnswersAreLoaded
  BY DEF CoherentInv, Coherent
<1> QED
  BY <1>1, CoherenceInvariant, PTL

(* In every session the live state is the one the map remembers, and every  *)
(* loaded graph has a use time.                                             *)
THEOREM MapsAgree == Spec => []CopiesAgree
<1>1. CoherentInv => CopiesAgree
  BY DEF CoherentInv, Coherent, CopiesAgree
<1> QED
  BY <1>1, CoherenceInvariant, PTL

-----------------------------------------------------------------------------
(* What was asked for stays loaded *)

(* An open_repository is under way that may replace the active root.        *)
Switching == step \in {"reuse", "analyze", "analyzed"} /\ task.work.op = "open"

(* The recorded use times are no older than the requests, except for the    *)
(* active root while it cannot be replaced; what has no use time has not    *)
(* been asked for in the window.                                            *)
UsesCoverRequests ==
  /\ \A r \in DOMAIN lastUsed : r # active.root \/ Switching => asked[r] <= lastUsed[r]
  /\ \A r \in Roots \ DOMAIN lastUsed : now - asked[r] >= IdleUnload

LEMMA InitUses == Init => UsesCoverRequests
<1> SUFFICES ASSUME Init PROVE UsesCoverRequests
  OBVIOUS
<1>1. PICK r \in Roots :
        /\ lastUsed = [k \in {r} |-> 0]
        /\ asked = [k \in Roots |-> IF k = r THEN 0 ELSE -IdleUnload]
  BY DEF Init
<1> QED
  BY <1>1, SessionAssumption DEF Init, UsesCoverRequests

(* Preparing the session drops only what was not asked for in the window,   *)
(* and leaves every use time up to date.                                    *)
LEMMA PrepareUses ==
  ASSUME CoherentInv, UsesCoverRequests, Prepare, UNCHANGED now,
         asked' = asked \/ Served({active.root})
  PROVE  /\ \A r \in DOMAIN lastUsed' : asked'[r] <= lastUsed'[r]
         /\ \A r \in Roots \ DOMAIN lastUsed' : now' - asked'[r] >= IdleUnload
<1> DEFINE used == {r \in DOMAIN lastUsed : Recent(r)}
<1>0. /\ now \in Nat /\ asked \in [Roots -> Int] /\ \A r \in Roots : asked[r] <= now
      /\ lastUsed \in [DOMAIN lastUsed -> Nat] /\ DOMAIN lastUsed \subseteq Roots
      /\ active.root \in DOMAIN lastUsed /\ IdleUnload \in Nat
  BY SessionAssumption DEF CoherentInv, TypeInv, TypeOK, Coherent, LoadedIffTimed,
                           LiveStateRemembered
<1>1. lastUsed' = Put(Restrict(lastUsed, used), active.root, now)
  BY DEF Prepare
<1>2. \A r \in used : r \in DOMAIN lastUsed
  OBVIOUS
<1>3. \A r \in DOMAIN lastUsed \ used :
        r # active.root /\ ~(now - lastUsed[r] < IdleUnload)
  BY DEF Recent
<1> HIDE DEF used
<1>4. /\ DOMAIN lastUsed' = used \cup {active.root}
      /\ lastUsed'[active.root] = now
      /\ \A r \in used : r # active.root => lastUsed'[r] = lastUsed[r]
  BY <1>1, <1>2 DEF Put, Restrict
<1>5. \A r \in Roots : r # active.root => asked'[r] = asked[r]
  BY <1>0 DEF Served
<1>6. asked'[active.root] <= now
  BY <1>0 DEF Served
<1>7. \A r \in DOMAIN lastUsed : r # active.root => asked[r] <= lastUsed[r]
  BY DEF UsesCoverRequests
<1>8. \A r \in DOMAIN lastUsed' : asked'[r] <= lastUsed'[r]
  BY <1>0, <1>2, <1>4, <1>5, <1>6, <1>7
<1>9. ASSUME NEW r \in Roots \ DOMAIN lastUsed'
      PROVE  now' - asked'[r] >= IdleUnload
  <2>1. r # active.root /\ asked'[r] = asked[r]
    BY <1>4, <1>5, <1>9
  <2>2. CASE r \in DOMAIN lastUsed
    <3>1. ~(now - lastUsed[r] < IdleUnload) /\ asked[r] <= lastUsed[r]
          /\ lastUsed[r] \in Nat /\ asked[r] \in Int
      BY <1>0, <1>3, <1>4, <1>7, <1>9, <2>1, <2>2
    <3> QED
      BY <1>0, <2>1, <3>1
  <2>3. CASE r \notin DOMAIN lastUsed
    BY <1>0, <2>1, <2>3 DEF UsesCoverRequests
  <2> QED
    BY <2>2, <2>3
<1> QED
  BY <1>8, <1>9

(* A root that is touched as it serves a request.                           *)
LEMMA TouchUses ==
  ASSUME CoherentInv, UsesCoverRequests, UNCHANGED now,
         NEW r \in Roots, lastUsed' = Put(lastUsed, r, now), Served({r}),
         \/ active' = active /\ ~Switching'
         \/ active'.root = active.root /\ ~Switching'
         \/ active'.root = r /\ Switching
  PROVE  UsesCoverRequests'
<1>0. /\ now \in Nat /\ asked \in [Roots -> Int]
      /\ lastUsed \in [DOMAIN lastUsed -> Nat] /\ DOMAIN lastUsed \subseteq Roots
  BY DEF CoherentInv, TypeInv, TypeOK
<1>1. /\ DOMAIN lastUsed' = DOMAIN lastUsed \cup {r}
      /\ lastUsed'[r] = now /\ asked'[r] = now
      /\ \A k \in DOMAIN lastUsed : k # r => lastUsed'[k] = lastUsed[k]
      /\ \A k \in Roots : k # r => asked'[k] = asked[k]
  BY <1>0 DEF Put, Served
<1>2. \A k \in DOMAIN lastUsed' : k # active'.root \/ Switching' => asked'[k] <= lastUsed'[k]
  BY <1>0, <1>1 DEF UsesCoverRequests
<1>3. \A k \in Roots \ DOMAIN lastUsed' : now' - asked'[k] >= IdleUnload
  BY <1>0, <1>1 DEF UsesCoverRequests
<1> QED
  BY <1>2, <1>3 DEF UsesCoverRequests

(* A step that leaves the session and the requests alone.                   *)
LEMMA QuietUses ==
  ASSUME CoherentInv, UsesCoverRequests, UNCHANGED <<active, lastUsed, asked>>,
         now' \in Nat, now <= now', Switching' => Switching
  PROVE  UsesCoverRequests'
<1>0. /\ now \in Nat /\ asked \in [Roots -> Int] /\ IdleUnload \in Nat
  BY SessionAssumption DEF CoherentInv, TypeInv, TypeOK
<1>1. \A k \in DOMAIN lastUsed' : k # active'.root \/ Switching' => asked'[k] <= lastUsed'[k]
  BY DEF UsesCoverRequests
<1>2. \A k \in Roots \ DOMAIN lastUsed' : now' - asked'[k] >= IdleUnload
  BY <1>0 DEF UsesCoverRequests
<1> QED
  BY <1>1, <1>2 DEF UsesCoverRequests

LEMMA UsesStep ==
  ASSUME CoherentInv, UsesCoverRequests, [Next]_vars
  PROVE  UsesCoverRequests'
<1>0. /\ TypeInv /\ TypeOK /\ Control /\ now \in Nat
      /\ active \in State /\ active.root \in Roots
  BY DEF CoherentInv, TypeInv, TypeOK, State
<1>1. CASE UNCHANGED vars
  BY <1>0, <1>1, QuietUses DEF vars, environment, session, operation, Switching
<1>2. CASE Write \/ Tick
  <2>1. now' \in Nat /\ now <= now'
    BY <1>0, <1>2 DEF Write, Tick
  <2> QED
    BY <1>2, <2>1, QuietUses DEF Write, Tick, session, operation, Switching
<1>fail. ASSUME Fail PROVE UsesCoverRequests'
  BY <1>0, <1>fail, QuietUses DEF Fail, Finish, environment, session, Switching
<1>3. ASSUME NEW work \in Work, NEW expected, NEW lateError, NEW valid,
             Call(work, expected, lateError, valid)
      PROVE  UsesCoverRequests'
  <2>1. Prepare /\ UNCHANGED now /\ (asked' = asked \/ Served({active.root}))
    BY <1>3 DEF Call, environment
  <2> QED
    BY <2>1, PrepareUses DEF UsesCoverRequests
<1>4. ASSUME NEW work \in Work, Invoke(work)
      PROVE  UsesCoverRequests'
  BY <1>0, <1>4, QuietUses DEF Invoke, environment, session, Switching
<1>5. CASE Read
  BY <1>0, <1>5, QuietUses DEF Read, Finish, environment, session, Switching
<1>6. CASE Rebuild
  <2>1. CASE Prepare /\ Continue("analyze") /\ UNCHANGED <<draft, ensured, asked>>
    <3>1. UNCHANGED now
      BY <2>1 DEF Continue, environment
    <3> QED
      BY <2>1, <3>1, PrepareUses DEF UsesCoverRequests
  <2> QED
    BY <1>6, <1>fail, <2>1 DEF Rebuild
<1>7. CASE Open
  <2>1. Prepare /\ UNCHANGED <<now, asked>>
    BY <1>7 DEF Open, Continue, environment
  <2> QED
    BY <2>1, PrepareUses DEF UsesCoverRequests
<1>8. CASE Reuse
  <2> DEFINE r == task.work.root
  <2>1. step = "reuse" /\ task.work.op = "open" /\ Switching /\ r \in Roots
    BY <1>0, <1>8, WorkTypes DEF Reuse, Control, Switching, Task
  <2>2. CASE /\ r = active.root
             /\ UNCHANGED <<environment, session>>
             /\ Finish(TRUE, FALSE, Nothing)
             /\ Served({r})
    <3>1. /\ ~Switching' /\ UNCHANGED <<now, active, lastUsed>>
      BY <2>2 DEF Finish, environment, session, Switching
    <3>2. \A k \in Roots : k # r => asked'[k] = asked[k]
      BY <2>2 DEF Served
    <3>3. r \in DOMAIN lastUsed /\ DOMAIN lastUsed \subseteq Roots
      BY <2>2 DEF CoherentInv, Coherent, LiveStateRemembered, LoadedIffTimed,
                  TypeInv, TypeOK
    <3> QED
      BY <2>2, <3>1, <3>2, <3>3 DEF UsesCoverRequests
  <2>3. CASE /\ r \in DOMAIN known /\ Activate(known[r])
             /\ Finish(TRUE, FALSE, Nothing)
             /\ UNCHANGED environment
    <3>1. known[r].root = r
      BY <1>0, <2>3 DEF TypeOK
    <3>2. /\ active' = known[r] /\ lastUsed' = Put(lastUsed, r, now) /\ Served({r})
          /\ UNCHANGED now
      BY <2>3, <3>1 DEF Activate, Remember, environment
    <3> QED
      BY <2>1, <3>1, <3>2, TouchUses
  <2>4. CASE /\ Continue("analyze")
             /\ UNCHANGED <<session, draft, ensured, asked>>
    BY <1>0, <2>1, <2>4, QuietUses DEF Continue, environment, session
  <2> QED
    BY <1>8, <1>fail, <2>2, <2>3, <2>4 DEF Reuse
<1>9. CASE Analyze \/ Refresh \/ Reparse \/ Trace
  <2>1. CASE UNCHANGED <<active, lastUsed, asked, now>> /\ (Switching' => Switching)
    BY <1>0, <2>1, QuietUses
  <2>2. CASE Fail
    BY <1>fail, <2>2
  <2>3. CASE Analyze /\ ~Fail
    BY <2>1, <2>3 DEF Analyze, Continue, environment, session, Switching
  <2>4. CASE Refresh /\ ~Fail
    BY <2>1, <2>4 DEF Refresh, Continue, environment, session, Switching
  <2>5. CASE Reparse /\ ~Fail
    <3>1. task.work.op = "refresh"
      BY <1>0, <2>5 DEF Reparse, Control
    <3> QED
      BY <2>1, <2>5, <3>1 DEF Reparse, Continue, environment, session, Switching
  <2>6. CASE Trace /\ ~Fail
    BY <2>1, <2>6 DEF Trace, Continue, environment, session, Switching
  <2> QED
    BY <1>9, <2>2, <2>3, <2>4, <2>5, <2>6
<1>10. CASE Install
  <2>1. /\ step = "analyzed" /\ draft \in Draft /\ draft.root = Target /\ draft.root \in Roots
        /\ Captured(draft) \in State /\ Captured(draft).root = draft.root
        /\ UNCHANGED now
    BY <1>0, <1>10, CapturedType DEF Install, Control, environment, Draft
  <2>2. CASE task.work.op = "trace"
    <3>1. /\ lastUsed' = Put(lastUsed, draft.root, now) /\ Served({draft.root})
          /\ active' = active /\ ~Switching'
      BY <1>10, <2>2 DEF Install, Ensured, Switching
    <3> QED
      BY <2>1, <3>1, TouchUses
  <2>3. CASE task.work.op # "trace"
    <3>1. /\ lastUsed' = Put(lastUsed, draft.root, now) /\ Served({draft.root})
          /\ active'.root = draft.root /\ ~Switching'
      BY <1>10, <2>1, <2>3 DEF Install, Activate, Remember, Finish, Switching
    <3>2. CASE task.work.op = "open"
      BY <2>1, <3>1, <3>2, TouchUses DEF Switching
    <3>3. CASE task.work.op # "open"
      <4>1. draft.root = active.root
        BY <2>1, <2>3, <3>3 DEF Target
      <4> QED
        BY <2>1, <3>1, <4>1, TouchUses
    <3> QED
      BY <3>2, <3>3
  <2> QED
    BY <2>2, <2>3
<1>11. CASE Compare
  <2> DEFINE fresh == [Captured(draft) EXCEPT !.content = active.content]
             changed == Generation(fresh) # Generation(active)
  <2>1. /\ step = "scanned" /\ draft \in Draft /\ draft.root = active.root
    BY <1>0, <1>11 DEF Compare, Control
  <2>2. CASE draft.revision = active.revision
    <3>1. fresh.root = active.root
      BY <2>1 DEF Captured
    <3>2. active' = fresh /\ Remember(known, fresh) /\ UNCHANGED now
          /\ Finish(TRUE, changed, Nothing)
      BY <1>11, <2>2 DEF Compare, environment
    <3> HIDE DEF fresh, changed
    <3>3. /\ lastUsed' = Put(lastUsed, active.root, now) /\ Served({active.root})
          /\ active'.root = active.root /\ ~Switching'
      BY <3>1, <3>2 DEF Remember, Finish, Switching
    <3> QED
      BY <1>0, <3>2, <3>3, TouchUses
  <2>3. CASE draft.revision # active.revision
    BY <1>0, <1>11, <2>3, QuietUses DEF Compare, Continue, environment, session, Switching
  <2> QED
    BY <2>2, <2>3
<1>12. CASE Ensure
  <2>1. step = "ensure" /\ task.work.op = "trace" /\ Target \in Roots
    BY <1>0, <1>12, TargetType DEF Ensure, Control
  <2>2. CASE Ensured(Target) /\ UNCHANGED <<environment, active, known, toolCache>>
    <3>1. /\ lastUsed' = Put(lastUsed, Target, now) /\ Served({Target})
          /\ active' = active /\ ~Switching' /\ UNCHANGED now
      BY <2>2 DEF Ensured, Switching, environment
    <3> QED
      BY <2>1, <3>1, TouchUses
  <2>3. CASE Continue("analyze") /\ UNCHANGED <<session, draft, ensured, asked>>
    BY <1>0, <2>1, <2>3, QuietUses DEF Continue, environment, session, Switching
  <2> QED
    BY <1>12, <1>fail, <2>2, <2>3 DEF Ensure
<1>13. CASE Respond
  <2>1. UNCHANGED <<active, lastUsed, asked, now>>
    BY <1>13 DEF Respond, session, environment
  <2>2. ~Switching'
    BY <1>13 DEF Respond, Finish, Switching
  <2> QED
    BY <1>0, <2>1, <2>2, QuietUses
<1> QED
  BY <1>1, <1>2, <1>3, <1>4, <1>5, <1>6, <1>7, <1>8, <1>9, <1>10, <1>11, <1>12, <1>13
     DEF Next, Engine, Request

(* Whatever an operation was asked about within the idle window is loaded,  *)
(* for every window and however long the operations take.                   *)
THEOREM RequestedAlwaysLoaded == Spec => []RequestedStayLoaded
<1>1. Init => UsesCoverRequests
  BY InitUses
<1>2. CoherentInv /\ UsesCoverRequests /\ [Next]_vars => UsesCoverRequests'
  BY UsesStep
<1>3. CoherentInv /\ UsesCoverRequests => RequestedStayLoaded
  <2> SUFFICES ASSUME CoherentInv, UsesCoverRequests,
                      NEW r \in Roots, now - asked[r] < IdleUnload
               PROVE  r \in DOMAIN known
    BY DEF RequestedStayLoaded
  <2>1. now \in Nat /\ asked[r] \in Int /\ IdleUnload \in Nat
    BY SessionAssumption DEF CoherentInv, TypeInv, TypeOK
  <2>2. ~(now - asked[r] >= IdleUnload)
    BY <2>1
  <2> QED
    BY <2>2 DEF UsesCoverRequests, CoherentInv, Coherent, LoadedIffTimed
<1> QED
  BY <1>1, <1>2, <1>3, CoherenceInvariant, PTL DEF Spec

-----------------------------------------------------------------------------
(* The cache bound *)

(* However many answers are asked for, the cache never exceeds its capacity *)
(* (MAX_TOOL_CACHE_ENTRIES).                                                *)
THEOREM CacheAlwaysBounded == Spec => []CacheIsBounded
<1> DEFINE Inv == IsFiniteSet(toolCache) /\ CacheIsBounded
<1>1. Init => Inv
  BY FS_EmptySet, SessionAssumption DEF Init, CacheIsBounded
<1>2. CoherentInv /\ Inv /\ [Next]_vars => Inv'
  <2> SUFFICES ASSUME CoherentInv, Inv, [Next]_vars PROVE Inv'
    OBVIOUS
  <2>1. CASE toolCache' \in {toolCache, {}}
    <3> SUFFICES IsFiniteSet(toolCache') /\ Cardinality(toolCache') <= MaxToolCache
      BY DEF CacheIsBounded
    <3>1. CASE toolCache' = toolCache
      BY <3>1 DEF CacheIsBounded
    <3>2. CASE toolCache' = {}
      <4>1. IsFiniteSet({}) /\ Cardinality({}) = 0
        BY FS_EmptySet
      <4> QED
        BY <3>2, <4>1, SessionAssumption
    <3> QED
      BY <2>1, <3>1, <3>2
  <2>2. CASE AnswerStep
    <3>1. PICK entry : toolCache' = Remembered(entry)
      BY <2>2 DEF AnswerStep
    <3>2. CASE Cardinality(toolCache) >= MaxToolCache
      <4>1. toolCache' = {entry}
        BY <3>1, <3>2 DEF Remembered
      <4>2. IsFiniteSet({entry}) /\ Cardinality({entry}) = 1
        BY FS_Singleton
      <4>3. IsFiniteSet(toolCache') /\ Cardinality(toolCache') <= MaxToolCache
        BY <4>1, <4>2, SessionAssumption
      <4> QED
        BY <4>3 DEF CacheIsBounded
    <3>3. CASE ~(Cardinality(toolCache) >= MaxToolCache)
      <4>1. toolCache' = toolCache \cup {entry}
        BY <3>1, <3>3 DEF Remembered
      <4>2. /\ IsFiniteSet(toolCache') /\ Cardinality(toolCache) \in Nat
            /\ Cardinality(toolCache') \in {Cardinality(toolCache), Cardinality(toolCache) + 1}
        BY <4>1, FS_AddElement, FS_CardinalityType
      <4> QED
        BY <3>3, <4>2, SessionAssumption DEF CacheIsBounded
    <3> QED
      BY <3>2, <3>3
  <2>3. TypeInv
    BY DEF CoherentInv
  <2> QED
    BY <2>1, <2>2, <2>3, StepKinds
       DEF session, Prepare, LoadStep, TouchStep, ActivateStep, Activate, EvidenceStep
<1>3. Inv => CacheIsBounded
  OBVIOUS
<1> QED
  BY <1>1, <1>2, <1>3, CoherenceInvariant, PTL DEF Spec

-----------------------------------------------------------------------------
(* Failures leave the target alone *)

(* No operation that fails has replaced the active graph before it failed,  *)
(* for any repositories and any interleaving with their writers.            *)
THEOREM FailuresKeepTheTarget == Spec => TargetChangesOnlyOnSuccess
<1> DEFINE Kept == active' # active => step' = "ready" /\ (reply'.ok \/ task.lateError)
<1>1. CoherentInv /\ [Next]_vars => [Kept]_vars
  <2> SUFFICES ASSUME CoherentInv, [Next]_vars, active' # active
               PROVE  step' = "ready" /\ (reply'.ok \/ task.lateError)
    OBVIOUS
  <2>1. Control
    BY DEF CoherentInv, TypeInv
  <2>2. ASSUME task \in Task, NEW changed, Finish(TRUE, changed, Nothing)
        PROVE  step' = "ready" /\ (reply'.ok \/ task.lateError)
    <3>1. /\ step' = "ready"
          /\ reply' = [work |-> task.work, ok |-> TRUE /\ ~task.lateError,
                       changed |-> changed, root |-> active'.root,
                       expected |-> task.expected, answer |-> Nothing]
      BY <2>2 DEF Finish
    <3>2. reply'.ok = (TRUE /\ ~task.lateError)
      BY <3>1
    <3>3. task.lateError \in BOOLEAN
      BY <2>2 DEF Task
    <3> QED
      BY <3>1, <3>2, <3>3
  <2>3. Reuse \/ Install \/ Compare
    BY DEF Next, Engine, Request, Read, Rebuild, Open, Analyze, Refresh, Reparse, Trace,
           Ensure, Respond, Call, Invoke, Write, Tick, Fail, Prepare, session, vars
  <2>4. task \in Task
    BY <2>1, <2>3 DEF Control, Reuse, Install, Compare
  <2>5. \E changed : Finish(TRUE, changed, Nothing)
    BY <2>3 DEF Reuse, Install, Compare, Fail, Activate, session
  <2> QED
    BY <2>2, <2>4, <2>5
<1> QED
  BY <1>1, CoherenceInvariant, PTL DEF Spec, TargetChangesOnlyOnSuccess

-----------------------------------------------------------------------------
(* A trace keeps its repositories *)

(* Every repository a trace has ensured is still loaded when the trace      *)
(* looks it up, for any number of repositories and any time the builds take.*)
THEOREM TracesKeepTheirStates == Spec => []TraceKeepsItsStates
<1>1. Init => TraceKeepsItsStates
  BY DEF Init, TraceKeepsItsStates
<1>2. CoherentInv /\ TraceKeepsItsStates /\ [Next]_vars => TraceKeepsItsStates'
  <2> SUFFICES ASSUME CoherentInv, TraceKeepsItsStates, [Next]_vars,
                      step' \in {"ensure", "analyze", "analyzed"}, task'.work.op = "trace",
                      NEW i \in 1..ensured'
               PROVE  Loaded(task.work.trace.selectors[i])' /\ task' = task
    <3>1. \A x : Loaded(x)' <=> x = active'.root \/ x \in DOMAIN known'
      BY DEF Loaded
    <3> QED
      BY <3>1 DEF TraceKeepsItsStates, Loaded
  <2>0. TypeOK /\ Control /\ ensured \in Nat
    BY DEF CoherentInv, TypeInv, TypeOK
  <2>1. /\ task' = task
        /\ active' = active /\ DOMAIN known \subseteq DOMAIN known'
        /\ \/ ensured' = ensured /\ step \in {"ensure", "analyze", "analyzed"}
           \/ ensured' = ensured /\ ensured = 0
           \/ /\ ensured' = ensured + 1 /\ step \in {"ensure", "analyzed"}
              /\ Target \in DOMAIN known' \cup {active.root}
    <3>1. CASE UNCHANGED vars
      BY <3>1 DEF vars, session, operation
    <3>2. CASE Write \/ Tick
      BY <3>2 DEF Write, Tick, session, operation
    <3>3. CASE Request
      BY <2>0, <3>3 DEF Request, Call, Invoke, Control
    <3>4. CASE Read \/ Refresh \/ Respond
      BY <3>4 DEF Read, Refresh, Fail, Respond, Finish, Continue
    <3>5. CASE Rebuild \/ Open \/ Reuse \/ Compare \/ Reparse
      BY <2>0, <3>5 DEF Rebuild, Open, Reuse, Compare, Reparse, Dispatched, Control,
                        Fail, Finish, Continue
    <3>6. CASE Trace
      BY <2>0, <3>6 DEF Trace, Dispatched, Control, Fail, Finish, Continue, session
    <3>7. CASE Analyze
      BY <3>7 DEF Analyze, Fail, Finish, Continue, session
    <3>8. CASE Install
      <4>1. task' = task
        BY <3>8 DEF Install, Finish, Ensured
      <4>2. /\ known' = Put(known, draft.root, Captured(draft)) /\ Ensured(draft.root)
            /\ active' = active /\ step = "analyzed" /\ draft.root = Target
        BY <2>0, <3>8, <4>1 DEF Install, Control
      <4>3. DOMAIN known' = DOMAIN known \cup {Target}
        BY <4>2 DEF Put
      <4> QED
        BY <4>1, <4>2, <4>3 DEF Ensured
    <3>9. CASE Ensure
      BY <3>9 DEF Ensure, Fail, Finish, Continue, Ensured, Loaded, session
    <3> QED
      BY <3>1, <3>2, <3>3, <3>4, <3>5, <3>6, <3>7, <3>8, <3>9 DEF Next, Engine
  <2>2. \A r : Loaded(r) => Loaded(r)'
    BY <2>1 DEF Loaded
  <2>3. CASE i = ensured + 1 /\ ensured' = ensured + 1
    <3>1. Target = task.work.trace.selectors[i]
      BY <2>1, <2>3 DEF Target
    <3> QED
      BY <2>0, <2>1, <2>3, <3>1 DEF Loaded
  <2>4. CASE i \in 1..ensured
    BY <2>0, <2>1, <2>2, <2>4 DEF TraceKeepsItsStates
  <2> QED
    BY <2>0, <2>1, <2>3, <2>4
<1> QED
  BY <1>1, <1>2, CoherenceInvariant, PTL DEF Spec

-----------------------------------------------------------------------------
(* The session implements the abstract answer cache *)

(* The domain and the values of the map that AnswerCache sees. *)
LEMMA LoadedGraphs ==
  ASSUME TypeInv
  PROVE  [r \in DOMAIN known |-> GraphOf(known[r])] \in
           [DOMAIN known -> Sources \X Sources]
  BY DEF TypeInv, TypeOK, GraphOf, State

(* Every behaviour of a session is one of the abstract cache: answers are   *)
(* remembered about loaded graphs only, and a step that changes what is     *)
(* loaded, other than by loading one more repository, forgets them all.     *)
THEOREM SessionImplementsAnswerCache == Spec => ImplementsAnswerCache
<1> USE DEF Abstract!cacheVars
<1>1. Init => Abstract!Init
  <2> SUFFICES ASSUME Init PROVE Abstract!Init
    OBVIOUS
  <2>1. PICK r \in Roots :
          /\ active = Captured([root |-> r, revision |-> disk[r].source,
                                content |-> disk[r].source])
          /\ known = [k \in {r} |-> active]
    BY DEF Init
  <2>2. toolCache = {}
    BY DEF Init
  <2>3. active \in State
    BY InitTypes DEF TypeInv, TypeOK
  <2>4. GraphOf(active) \in Sources \X Sources
    BY <2>3 DEF GraphOf, State
  <2>5. [k \in DOMAIN known |-> GraphOf(known[k])] = [k \in {r} |-> GraphOf(active)]
    BY <2>1
  <2> QED
    BY <2>2, <2>4, <2>5 DEF Abstract!Init
<1>2. CoherentInv /\ CoherentInv' /\ [Next]_vars => [Abstract!Next]_(Abstract!cacheVars)
  <2> SUFFICES ASSUME CoherentInv, CoherentInv', [Next]_vars
               PROVE  [Abstract!Next]_(Abstract!cacheVars)
    OBVIOUS
  <2> DEFINE graphs == [r \in DOMAIN known |-> GraphOf(known[r])]
             answers == {Footprint(entry) : entry \in toolCache}
  <2>0. /\ TypeInv /\ TypeOK /\ active.root \in DOMAIN known /\ known[active.root] = active
        /\ TypeInv' /\ DOMAIN known' \subseteq Roots
    BY DEF CoherentInv, Coherent, LiveStateRemembered, TypeInv, TypeOK
  <2>1. CASE graphs' = graphs /\ toolCache' = toolCache
    BY <2>1
  <2>2. CASE toolCache' = {}
    <3>1. graphs' \in [DOMAIN known' -> Sources \X Sources]
      BY <2>0 DEF TypeInv, TypeOK, GraphOf, State
    <3> QED
      BY <2>0, <2>2, <3>1 DEF Abstract!Next, Abstract!Change, Abstract!Maps
  <2>3. CASE LoadStep
    <3>1. PICK s \in State :
            /\ ~Loaded(s.root) /\ known' = Put(known, s.root, s) /\ toolCache' = toolCache
      BY <2>3 DEF LoadStep
    <3>2. s.root \in Roots \ DOMAIN known /\ GraphOf(s) \in Sources \X Sources
      BY <3>1 DEF Loaded, State, GraphOf
    <3>3. graphs' = [k \in DOMAIN graphs \cup {s.root} |->
                       IF k = s.root THEN GraphOf(s) ELSE graphs[k]]
      BY <3>1 DEF Put
    <3> QED
      BY <3>1, <3>2, <3>3 DEF Abstract!Next, Abstract!Load
  <2>4. CASE AnswerStep
    <3>1. PICK trace \in Traces :
            /\ \A r \in Selectors(trace) : Loaded(r)
            /\ toolCache' = Remembered([trace |-> trace, revisions |-> Key(trace),
                                        answer |-> Computed(trace)])
            /\ UNCHANGED <<active, known, lastUsed>>
      BY <2>4 DEF AnswerStep
    <3> DEFINE entry == [trace |-> trace, revisions |-> Key(trace),
                         answer |-> Computed(trace)]
               about == [r \in Selectors(trace) |-> graphs[r]]
    <3>2. Selectors(trace) \subseteq DOMAIN graphs
      BY <2>0, <3>1 DEF Loaded
    <3>3. Footprint(entry) = about
      BY <2>0, <3>2 DEF Footprint, Key, Computed, KnownState, GraphOf
    <3>4. toolCache' \in {{entry}, toolCache \cup {entry}}
      BY <3>1 DEF Remembered
    <3> HIDE DEF entry
    <3> HIDE DEF about
    <3>5. answers' \in {{about}, answers \cup {about}}
      <4>1. answers' = {Footprint(e) : e \in toolCache'}
        OBVIOUS
      <4>2. CASE toolCache' = {entry}
        BY <3>3, <4>1, <4>2
      <4>3. CASE toolCache' = toolCache \cup {entry}
        BY <3>3, <4>1, <4>3
      <4> QED
        BY <3>4, <4>2, <4>3
    <3> USE DEF about
    <3>6. graphs' = graphs
      BY <3>1
    <3> QED
      BY <3>2, <3>5, <3>6 DEF Abstract!Next, Abstract!Learn
  <2>5. CASE EvidenceStep
    <3>1. PICK s \in State :
            /\ s.root = active.root /\ GraphOf(s) = GraphOf(active)
            /\ known' = Put(known, s.root, s) /\ toolCache' \in {toolCache, {}}
      BY <2>5 DEF EvidenceStep
    <3>2. graphs' = graphs
      BY <2>0, <3>1 DEF Put
    <3> QED
      BY <2>1, <2>2, <3>1, <3>2
  <2>6. CASE Prepare
    <3> DEFINE kept == {r \in DOMAIN known : Recent(r)}
    <3>1. known' = Restrict(known, kept)
          /\ toolCache' = IF kept = DOMAIN known THEN toolCache ELSE {}
      BY <2>6 DEF Prepare
    <3>2. kept = DOMAIN known => graphs' = graphs
      BY <3>1 DEF Restrict
    <3> QED
      BY <2>1, <2>2, <3>1, <3>2
  <2>7. CASE UNCHANGED session \/ TouchStep
    BY <2>1, <2>7 DEF session, TouchStep
  <2>8. CASE ActivateStep
    BY <2>2, <2>8 DEF ActivateStep, Activate
  <2> QED
    BY <2>0, <2>3, <2>4, <2>5, <2>6, <2>7, <2>8, StepKinds
<1> QED
  BY <1>1, <1>2, CoherenceInvariant, PTL DEF Spec, ImplementsAnswerCache, Abstract!Spec

(* In every behaviour of the abstract cache a remembered answer is about    *)
(* the graphs that are loaded when it is looked at: the reason a session    *)
(* that implements AnswerCache may serve it without recomputing it.         *)
LEMMA AnswersStayCurrent == Abstract!Spec => []Abstract!AnswersAreCurrent
<1> DEFINE graphs == [r \in DOMAIN known |-> GraphOf(known[r])]
           answers == {Footprint(entry) : entry \in toolCache}
           Current == \A answer \in answers : \A r \in DOMAIN answer :
                        r \in DOMAIN graphs /\ answer[r] = graphs[r]
           Loads == /\ \E r \in Roots \ DOMAIN graphs, g \in Sources \X Sources :
                         graphs' = [k \in DOMAIN graphs \cup {r} |-> IF k = r THEN g ELSE graphs[k]]
                    /\ answers' = answers
           Learns == /\ \E D \in SUBSET DOMAIN graphs :
                          answers' \in {{[r \in D |-> graphs[r]]},
                                       answers \cup {[r \in D |-> graphs[r]]}}
                     /\ graphs' = graphs
           Changes == answers' = {}
           Stays == graphs' = graphs /\ answers' = answers
<1>1. Abstract!Init => Current
  BY DEF Abstract!Init
<1>2. Current /\ [Abstract!Next]_(Abstract!cacheVars) => Current'
  <2>1. [Abstract!Next]_(Abstract!cacheVars) => Loads \/ Learns \/ Changes \/ Stays
    BY DEF Abstract!Next, Abstract!cacheVars, Abstract!Load, Abstract!Change, Abstract!Learn
  <2>2. SUFFICES ASSUME Current, Loads \/ Learns \/ Changes \/ Stays
                 PROVE  Current'
    BY <2>1
  <2> HIDE DEF graphs
  <2> HIDE DEF answers
  <2>3. CASE Loads
    BY <2>2, <2>3
  <2>4. CASE Learns
    BY <2>2, <2>4
  <2>5. CASE Changes \/ Stays
    BY <2>2, <2>5
  <2> QED
    BY <2>2, <2>3, <2>4, <2>5
<1>3. Current <=> Abstract!AnswersAreCurrent
  BY DEF Abstract!AnswersAreCurrent, Abstract!AboutLoaded
<1> QED
  BY <1>1, <1>2, <1>3, PTL DEF Abstract!Spec

(* What the abstract cache promises the session keeps, because it           *)
(* implements it: an answer in the tool cache has the revisions and the     *)
(* contents of the graphs that are loaded.                                  *)
THEOREM RememberedAnswersAreCurrent == Spec => []Abstract!AnswersAreCurrent
  BY SessionImplementsAnswerCache, AnswersStayCurrent DEF ImplementsAnswerCache
=============================================================================
