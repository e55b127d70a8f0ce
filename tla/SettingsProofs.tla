--------------------------- MODULE SettingsProofs ---------------------------
(***************************************************************************)
(* Proofs about the runtime settings, for any number of keys, values,      *)
(* environments and concurrent calls: the inductive invariant of Settings  *)
(* and the three promises it implies.                                      *)
(***************************************************************************)
EXTENDS Settings, TLAPS

\* There are four bindings.
LEMMA HookCount == Len(Hooks) = 4 /\ HookSteps = 1..4
BY DEF Hooks, HookSteps

\* build returns a complete configuration from any table and environment.
LEMMA BuildType ==
    ASSUME NEW rows \in Rows, NEW e \in Config
    PROVE  Build(rows, e) \in Effective
BY DEF Rows, Config, Effective, Build

\* The statements of a call leave a table.
LEMMA WrittenType ==
    ASSUME stored \in Rows, NEW c \in Call, c.op = "set" \/ c.key \in Keys
    PROVE  Written(c) \in Rows
BY DEF Rows, Body, Call, Written

\* A candidate is a complete configuration.
LEMMA CandidateType ==
    ASSUME snap \in Effective, NEW body \in Body
    PROVE  Candidate(body) \in Effective
BY DEF Effective, Config, Body, Candidate

\* Overlaying the snapshot and overlaying the table come to the same when the
\* snapshot is what the table says.
LEMMA CandidateIsBuild ==
    ASSUME stored \in Rows, env \in Config, snap = Build(stored, env),
           NEW c \in Call, c.op = "set"
    PROVE  Candidate(c.body) = Build(Written(c), env)
<1>1. c.body \in Body
  BY DEF Call
<1>2. Written(c) = [k \in Keys |-> IF c.body[k] = Unset THEN stored[k] ELSE c.body[k]]
  BY DEF Written
<1>3. \A k \in Keys : c.body[k] # Unset => c.body[k] \in Values
  BY <1>1 DEF Body
<1>4. Candidate(c.body).values = Build(Written(c), env).values
  BY <1>2, <1>3, ValuesType DEF Candidate, Build
<1>5. Candidate(c.body).source = Build(Written(c), env).source
  BY <1>2, <1>3, ValuesType DEF Candidate, Build
<1> QED
  BY <1>4, <1>5 DEF Candidate, Build

\* The rule does not read the secrets: losing them does not break it.
LEMMA SecretsDoNotMatter ==
    ASSUME NEW rows \in Rows, NEW e \in Config, NEW unreadable \in SUBSET Secrets,
           Invariants(Build(rows, e).values)
    PROVE  Invariants(Build([k \in Keys |-> IF k \in unreadable /\ rows[k] # Unset
                                            THEN Lost ELSE rows[k]], e).values)
BY KeysType, SecretsElsewhere DEF Build, Invariants

-----------------------------------------------------------------------------
(* The invariant *)

\* The process starts with nothing stored, running on its environment.
LEMMA InitInv == Init => IInv
<1> SUFFICES ASSUME Init PROVE IInv
  OBVIOUS
<1>1. env \in Config /\ stored \in Rows /\ Invariants(env)
  BY EnvsType DEF Init, Rows
<1>2. snap \in Effective /\ snap = Build(stored, env)
  BY <1>1, BuildType DEF Init
<1>3. snap.values = env
  BY <1>1, ValuesType DEF Init, Build, Config
<1>4. Idle \in Call
  BY DEF Idle, Call, Body
<1>5. TypeOK
  BY <1>1, <1>2, <1>4 DEF Init, TypeOK
<1>6. LockInv /\ ShapeInv /\ CandInv
  BY WritersType DEF Init, LockInv, ShapeInv, CandInv, Idle, Inside
<1>7. SnapInv /\ ArmedInv /\ DoubtInv
  BY <1>2, <1>3 DEF Init, SnapInv, ArmedInv, DoubtInv, Idle
<1>8. AlwaysSendable
  BY <1>1, <1>2, <1>3 DEF AlwaysSendable
<1> QED
  BY <1>5, <1>6, <1>7, <1>8 DEF IInv

\* A call that waits for the mutex disturbs nobody.
LEMMA StartPreserves ==
    ASSUME IInv, NEW i \in Writers,
           (\E body \in Changes : StartSet(i, body)) \/ (\E k \in Keys : StartReset(i, k))
    PROVE  IInv'
<1>1. UNCHANGED <<env, stored, mu, snap, armed, doubt, tainted>> /\ w[i] = Idle
  BY DEF StartSet, StartReset
<1>2. PICK c \in Call : /\ w' = [w EXCEPT ![i] = c] /\ c.pc = "lock"
                        /\ c.op \in {"set", "reset"} /\ (c.op = "reset" => c.key \in Keys)
  <2>1. CASE \E body \in Changes : StartSet(i, body)
    <3>1. PICK body \in Changes : StartSet(i, body)
      BY <2>1
    <3>2. [Idle EXCEPT !.pc = "lock", !.op = "set", !.body = body] \in Call
      BY ChangesType DEF Idle, Call, Body
    <3> QED
      BY <3>1, <3>2 DEF StartSet, Idle
  <2>2. CASE \E k \in Keys : StartReset(i, k)
    <3>1. PICK k \in Keys : StartReset(i, k)
      BY <2>2
    <3>2. [Idle EXCEPT !.pc = "lock", !.op = "reset", !.key = k] \in Call
      BY DEF Idle, Call, Body
    <3> QED
      BY <3>1, <3>2 DEF StartReset, Idle
  <2> QED
    BY <2>1, <2>2
<1>3. TypeOK'
  BY <1>1, <1>2 DEF IInv, TypeOK
<1>4. LockInv' /\ ShapeInv'
  BY <1>1, <1>2 DEF IInv, TypeOK, LockInv, ShapeInv, Inside, Idle
<1>5. \A j \in Writers : w'[j] = w[j] \/ (j = i /\ w'[j].pc = "lock" /\ w[j].pc = "idle")
  BY <1>1, <1>2 DEF IInv, TypeOK, Idle
<1>6. CandInv'
  BY <1>1, <1>5 DEF IInv, CandInv, Written
<1>7. SnapInv' /\ ArmedInv' /\ DoubtInv' /\ AlwaysSendable'
  BY <1>1, <1>5 DEF IInv, SnapInv, ArmedInv, DoubtInv, AlwaysSendable
<1> QED
  BY <1>3, <1>4, <1>6, <1>7 DEF IInv

\* While nobody holds the mutex no call is past it, and the running
\* configuration is the stored one.
LEMMA NobodyInside ==
    ASSUME IInv, mu = Nobody
    PROVE  /\ \A j \in Writers : w[j].pc \notin Inside
           /\ ~doubt => snap = Build(stored, env)
           /\ \A h \in HookSteps : armed[h] = snap.values
<1>1. \A j \in Writers : w[j].pc \notin Inside
  BY WritersType DEF IInv, LockInv
<1> QED
  BY <1>1 DEF IInv, SnapInv, ArmedInv, Inside

\* A call that returns without having changed anything keeps the invariant,
\* whether or not it releases the mutex.
LEMMA ReturnPreserves ==
    ASSUME IInv, NEW i \in Writers, Return(i), w[i].pc \notin {"store", "hook"},
           UNCHANGED <<env, stored, snap, armed, doubt, tainted>>,
           (mu = i /\ mu' = Nobody) \/ (mu # i /\ mu' = mu)
    PROVE  IInv'
<1>1. w' = [w EXCEPT ![i] = Idle] /\ Idle \in Call /\ Idle.pc = "idle"
  BY DEF Return, Idle, Call, Body
<1>2. TypeOK'
  BY <1>1 DEF IInv, TypeOK
<1>3. \A j \in Writers : w'[j] = IF j = i THEN Idle ELSE w[j]
  BY <1>1 DEF IInv, TypeOK
<1>4. LockInv'
  BY <1>1, <1>3, WritersType DEF IInv, LockInv, Inside
<1>5. ShapeInv'
  BY <1>1, <1>3 DEF IInv, ShapeInv, Inside, Idle
<1>6. CandInv'
  BY <1>1, <1>3 DEF IInv, CandInv, Written
<1>7. SnapInv'
  BY <1>3 DEF IInv, SnapInv
<1>8. ArmedInv'
  BY <1>1, <1>3 DEF IInv, ArmedInv
<1>9. DoubtInv' /\ AlwaysSendable'
  BY DEF IInv, DoubtInv, AlwaysSendable
<1> QED
  BY <1>2, <1>4, <1>5, <1>6, <1>7, <1>8, <1>9 DEF IInv

\* A call record stays one when its program point, candidate or hook moves.
LEMMA CallMoves ==
    ASSUME NEW c \in Call, NEW pc \in {"probe", "commit", "store", "hook"},
           NEW cand \in Effective, NEW hook \in Nat
    PROVE  /\ [c EXCEPT !.pc = pc, !.cand = cand] \in Call
           /\ [c EXCEPT !.pc = pc] \in Call
           /\ [c EXCEPT !.pc = pc, !.hook = hook] \in Call
           /\ [c EXCEPT !.hook = hook] \in Call
<1>1. [c EXCEPT !.pc = pc, !.cand = cand] \in Call
  BY DEF Call
<1>2. [c EXCEPT !.pc = pc] \in Call
  BY DEF Call
<1>3. [c EXCEPT !.pc = pc, !.hook = hook] \in Call
  BY DEF Call
<1>4. [c EXCEPT !.hook = hook] \in Call
  BY DEF Call
<1> QED
  BY <1>1, <1>2, <1>3, <1>4

\* The call that takes the mutex holds a candidate that obeys the rule and,
\* without doubt, is what the table will say.
LEMMA EnterPreserves ==
    ASSUME IInv, NEW i \in Writers, w[i].pc = "lock", mu = Nobody, mu' = i,
           NEW pc \in {"probe", "commit"}, NEW cand \in Effective, Invariants(cand.values),
           w' = [w EXCEPT ![i] = [@ EXCEPT !.pc = pc, !.cand = cand]],
           UNCHANGED <<env, stored, snap, armed, doubt, tainted>>,
           w[i].op = "reset" => pc = "commit",
           w[i].op = "reset" \/ ~doubt => cand = Build(Written(w[i]), env)
    PROVE  IInv'
<1>1. w[i] \in Call /\ w'[i] = [w[i] EXCEPT !.pc = pc, !.cand = cand]
  BY DEF IInv, TypeOK
<1>2. w'[i] \in Call /\ w'[i].pc = pc /\ w'[i].cand = cand /\ w'[i].op = w[i].op
      /\ w'[i].key = w[i].key /\ w'[i].body = w[i].body
  <2>1. w'[i].pc = pc /\ w'[i].cand = cand
    BY <1>1 DEF Call
  <2>2. w'[i].op = w[i].op /\ w'[i].key = w[i].key /\ w'[i].body = w[i].body
    BY <1>1 DEF Call
  <2>3. w'[i] \in Call
    <3>1. pc \in {"probe", "commit", "store", "hook"} /\ 0 \in Nat
      OBVIOUS
    <3>2. [w[i] EXCEPT !.pc = pc, !.cand = cand] \in Call
      BY <1>1, <3>1, CallMoves, Zenon
    <3> QED
      BY <1>1, <3>2
  <2> QED
    BY <2>1, <2>2, <2>3
<1>3. \A j \in Writers : j # i => w'[j] = w[j] /\ w[j].pc \notin Inside
  BY NobodyInside DEF IInv, TypeOK
<1>4. TypeOK'
  BY <1>1, <1>2 DEF IInv, TypeOK
<1>5. LockInv'
  BY <1>2, <1>3 DEF LockInv, Inside
<1>6. ShapeInv'
  BY <1>2, <1>3 DEF IInv, ShapeInv, Inside
<1>7. CandInv'
  <2>1. Written(w[i])' = Written(w[i])
    BY <1>2 DEF Written
  <2>2. ASSUME NEW j \in Writers, j # i
        PROVE  w'[j] = w[j] /\ w'[j].pc \notin Inside
    BY <1>3, <2>2
  <2>3. /\ w'[i].pc \in {"probe", "commit"} /\ (w'[i].op = "reset" \/ ~doubt') =>
              w'[i].cand = Build(Written(w[i])', env')
        /\ w'[i].pc \notin {"store", "hook"}
    BY <1>2, <2>1
  <2> QED
    BY <2>2, <2>3 DEF CandInv, Inside
<1>8. SnapInv' /\ ArmedInv'
  BY <1>2, <1>3, NobodyInside DEF SnapInv, ArmedInv, Inside
<1>9. DoubtInv' /\ AlwaysSendable'
  BY DEF IInv, DoubtInv, AlwaysSendable
<1> QED
  BY <1>4, <1>5, <1>6, <1>7, <1>8, <1>9 DEF IInv

\* Set past Lock: refused, or in with a candidate that obeys the rule.
LEMMA SetLockPreserves ==
    ASSUME IInv, NEW i \in Writers, SetLock(i)
    PROVE  IInv'
<1> DEFINE cand == Candidate(w[i].body)
<1>1. w[i] \in Call /\ w[i].body \in Body /\ w[i].op = "set" /\ w[i].pc = "lock" /\ mu = Nobody
  BY DEF IInv, TypeOK, SetLock, Call
<1>2. cand \in Effective
  BY <1>1, CandidateType DEF IInv, TypeOK
<1>3. ~doubt => cand = Build(Written(w[i]), env)
  BY <1>1, NobodyInside, CandidateIsBuild DEF IInv, TypeOK
<1>4. CASE Invariants(cand.values)
  <2>1. PICK pc \in {"probe", "commit"} : w' = [w EXCEPT ![i] = [@ EXCEPT !.pc = pc, !.cand = cand]]
    BY <1>4 DEF SetLock
  <2>2. mu' = i /\ UNCHANGED <<env, stored, snap, armed, doubt, tainted>>
    BY <1>4 DEF SetLock
  <2> HIDE DEF cand
  <2> QED
    BY <1>1, <1>2, <1>3, <1>4, <2>1, <2>2, EnterPreserves
<1>5. CASE ~Invariants(cand.values)
  <2>1. Return(i) /\ UNCHANGED <<env, stored, mu, snap, armed, doubt, tainted>>
    BY <1>5 DEF SetLock
  <2> QED
    BY <1>1, <2>1, WritersType, ReturnPreserves
<1> QED
  BY <1>4, <1>5

\* Reset past Lock: the same, with a candidate built from the table.
LEMMA ResetLockPreserves ==
    ASSUME IInv, NEW i \in Writers, ResetLock(i)
    PROVE  IInv'
<1> DEFINE next == Build(Written(w[i]), env)
<1>1. w[i] \in Call /\ w[i].op = "reset" /\ w[i].pc = "lock" /\ mu = Nobody /\ w[i].key \in Keys
  BY DEF IInv, TypeOK, ResetLock, ShapeInv
<1>2. next \in Effective
  BY <1>1, WrittenType, BuildType DEF IInv, TypeOK
<1>3. UNCHANGED <<env, stored, snap, armed, doubt, tainted>>
  BY DEF ResetLock
<1>4. CASE Invariants(next.values) /\ mu' = i
           /\ w' = [w EXCEPT ![i] = [@ EXCEPT !.pc = "commit", !.cand = next]]
  <2>1. next = Build(Written(w[i]), env)
    OBVIOUS
  <2> HIDE DEF next
  <2> QED
    BY <1>1, <1>2, <1>3, <1>4, <2>1, EnterPreserves
<1>5. CASE Return(i) /\ UNCHANGED mu
  BY <1>1, <1>3, <1>5, WritersType, ReturnPreserves
<1> QED
  BY <1>4, <1>5 DEF ResetLock

\* The holder of the mutex moves on: the others are outside, and it stays in.
LEMMA Advance ==
    ASSUME IInv, NEW i \in Writers, w[i].pc \in Inside, mu' = mu,
           NEW c \in Call, w' = [w EXCEPT ![i] = c],
           c.pc \in Inside, c.pc # "probe", c.pc = "hook" => c.hook \in HookSteps,
           c.op = w[i].op, c.key = w[i].key, c.cand = w[i].cand
    PROVE  /\ w' \in [Writers -> Call] /\ w'[i] = c
           /\ \A j \in Writers : j # i => w'[j] = w[j] /\ w[j].pc \notin Inside
           /\ LockInv' /\ ShapeInv'
<1>1. w' \in [Writers -> Call] /\ w'[i] = c
  BY DEF IInv, TypeOK
<1>2. \A j \in Writers : j # i => w'[j] = w[j] /\ w[j].pc \notin Inside
  BY DEF IInv, TypeOK, LockInv
<1>3. LockInv'
  BY <1>1, <1>2 DEF IInv, LockInv
<1>4. ShapeInv'
  BY <1>1, <1>2 DEF IInv, ShapeInv, Inside
<1> QED
  BY <1>1, <1>2, <1>3, <1>4

\* The probe passes, or the call returns and releases the mutex.
LEMMA ProbePreserves ==
    ASSUME IInv, NEW i \in Writers, Probe(i)
    PROVE  IInv'
<1>1. w[i] \in Call /\ w[i].pc = "probe" /\ mu = i /\ w[i].cand \in Effective
  BY DEF IInv, TypeOK, Probe, LockInv, ShapeInv, Inside
<1>2. UNCHANGED <<env, stored, snap, armed, doubt, tainted>>
  BY DEF Probe
<1>3. CASE Goto(i, "commit") /\ UNCHANGED mu
  <2> DEFINE c == [w[i] EXCEPT !.pc = "commit"]
  <2>1. c \in Call
    BY <1>1 DEF Call
  <2>2. c.pc = "commit" /\ c.op = w[i].op /\ c.key = w[i].key /\ c.cand = w[i].cand /\ c.body = w[i].body
    BY <1>1 DEF Call
  <2>3. w' = [w EXCEPT ![i] = c]
    BY <1>3 DEF Goto
  <2> HIDE DEF c
  <2>4. /\ w' \in [Writers -> Call] /\ w'[i] = c
        /\ \A j \in Writers : j # i => w'[j] = w[j] /\ w[j].pc \notin Inside
        /\ LockInv' /\ ShapeInv'
    BY <1>1, <1>3, <2>1, <2>2, <2>3, Advance DEF Inside
  <2>5. TypeOK'
    BY <1>2, <1>3, <2>4 DEF IInv, TypeOK
  <2>6. CandInv'
    <3>1. Written(w[i])' = Written(w[i])
      BY <1>2, <2>2, <2>4 DEF Written
    <3>2. w'[i].op = "reset" \/ ~doubt' => w'[i].cand = Build(Written(w[i])', env')
      BY <1>1, <1>2, <2>2, <2>4, <3>1 DEF IInv, CandInv
    <3> QED
      BY <2>2, <2>4, <3>2 DEF CandInv, Inside
  <2>7. SnapInv' /\ ArmedInv'
    BY <1>1, <1>2, <2>2, <2>4 DEF IInv, SnapInv, ArmedInv, Inside
  <2>8. DoubtInv' /\ AlwaysSendable'
    BY <1>2 DEF IInv, DoubtInv, AlwaysSendable
  <2> QED
    BY <2>4, <2>5, <2>6, <2>7, <2>8 DEF IInv
<1>4. CASE Return(i) /\ mu' = Nobody
  BY <1>1, <1>2, <1>4, ReturnPreserves
<1> QED
  BY <1>3, <1>4 DEF Probe

\* The statements take effect and the call goes on, or nothing happens, or
\* they take effect and the call is told otherwise.
LEMMA CommitPreserves ==
    ASSUME IInv, NEW i \in Writers, Commit(i)
    PROVE  IInv'
<1>1. /\ w[i] \in Call /\ w[i].pc = "commit" /\ mu = i
      /\ w[i].cand \in Effective /\ Invariants(w[i].cand.values)
      /\ w[i].op = "set" \/ w[i].key \in Keys
  BY DEF IInv, TypeOK, Commit, LockInv, ShapeInv, Inside
<1>2. UNCHANGED <<env, snap, armed>>
  BY DEF Commit
<1>3. Written(w[i]) \in Rows
  BY <1>1, WrittenType DEF IInv, TypeOK
<1>4. \A h \in HookSteps : armed[h] = snap.values
  BY <1>1 DEF IInv, LockInv, ArmedInv, Inside
<1>5. CASE stored' = Written(w[i]) /\ Goto(i, "store") /\ UNCHANGED <<mu, doubt, tainted>>
  <2> DEFINE c == [w[i] EXCEPT !.pc = "store"]
  <2>1. c \in Call
    BY <1>1 DEF Call
  <2>2. c.pc = "store" /\ c.op = w[i].op /\ c.key = w[i].key /\ c.cand = w[i].cand
    BY <1>1 DEF Call
  <2>3. w' = [w EXCEPT ![i] = c]
    BY <1>5 DEF Goto
  <2> HIDE DEF c
  <2>4. /\ w' \in [Writers -> Call] /\ w'[i] = c
        /\ \A j \in Writers : j # i => w'[j] = w[j] /\ w[j].pc \notin Inside
        /\ LockInv' /\ ShapeInv'
    BY <1>1, <1>5, <2>1, <2>2, <2>3, Advance DEF Inside
  <2>5. TypeOK'
    BY <1>2, <1>3, <1>5, <2>4 DEF IInv, TypeOK
  <2>6. w[i].op = "reset" \/ ~doubt => w[i].cand = Build(stored', env')
    BY <1>1, <1>2, <1>5 DEF IInv, CandInv
  <2>7. CandInv'
    BY <1>5, <2>2, <2>4, <2>6 DEF CandInv, Inside
  <2>8. SnapInv'
    BY <2>2, <2>4 DEF SnapInv
  <2>9. ArmedInv'
    BY <1>2, <1>4, <2>2, <2>4 DEF ArmedInv, Inside
  <2>10. DoubtInv' /\ AlwaysSendable'
    BY <1>1, <1>2, <1>5, <2>6 DEF IInv, DoubtInv, AlwaysSendable
  <2> QED
    BY <2>4, <2>5, <2>7, <2>8, <2>9, <2>10 DEF IInv
<1>6. CASE Return(i) /\ mu' = Nobody /\ UNCHANGED <<stored, doubt, tainted>>
  BY <1>1, <1>2, <1>6, ReturnPreserves
<1>7. CASE stored' = Written(w[i]) /\ Return(i) /\ mu' = Nobody /\ doubt' = TRUE /\ tainted' = TRUE
  <2>1. /\ w' \in [Writers -> Call] /\ w'[i] = Idle
        /\ \A j \in Writers : j # i => w'[j] = w[j] /\ w[j].pc \notin Inside
    <3>1. Idle \in Call
      BY DEF Idle, Call, Body
    <3> QED
      BY <1>1, <1>7, <3>1 DEF Return, IInv, TypeOK, LockInv
  <2>2. TypeOK'
    BY <1>2, <1>3, <1>7, <2>1 DEF IInv, TypeOK
  <2>3. LockInv'
    BY <1>7, <2>1, WritersType DEF LockInv, Idle, Inside
  <2>4. ShapeInv'
    BY <2>1 DEF IInv, ShapeInv, Idle, Inside
  <2>5. CandInv'
    BY <2>1 DEF CandInv, Idle, Inside
  <2>6. ArmedInv'
    BY <1>2, <1>4, <2>1 DEF ArmedInv, Idle, Inside
  <2>7. SnapInv' /\ DoubtInv' /\ AlwaysSendable'
    BY <1>7 DEF SnapInv, DoubtInv, AlwaysSendable
  <2> QED
    BY <2>2, <2>3, <2>4, <2>5, <2>6, <2>7 DEF IInv
<1> QED
  BY <1>5, <1>6, <1>7 DEF Commit

\* The candidate becomes the running configuration.
LEMMA StorePreserves ==
    ASSUME IInv, NEW i \in Writers, Store(i)
    PROVE  IInv'
<1>1. /\ w[i] \in Call /\ w[i].pc = "store" /\ mu = i /\ w[i].op \in {"set", "reset"}
      /\ w[i].cand \in Effective /\ Invariants(w[i].cand.values)
  BY DEF IInv, TypeOK, Store, LockInv, ShapeInv, Inside
<1>2. /\ UNCHANGED <<env, stored, mu, armed, tainted>> /\ snap' = w[i].cand
      /\ doubt' = (doubt /\ w[i].op = "set")
  BY DEF Store
<1> DEFINE c == [w[i] EXCEPT !.pc = "hook", !.hook = 1]
<1>3. c \in Call
  BY <1>1 DEF Call
<1>4. c.pc = "hook" /\ c.op = w[i].op /\ c.key = w[i].key /\ c.cand = w[i].cand /\ c.hook = 1
  BY <1>1 DEF Call
<1>5. w' = [w EXCEPT ![i] = c]
  BY DEF Store
<1> HIDE DEF c
<1>6. /\ w' \in [Writers -> Call] /\ w'[i] = c
      /\ \A j \in Writers : j # i => w'[j] = w[j] /\ w[j].pc \notin Inside
      /\ LockInv' /\ ShapeInv'
  <2>1. c.pc \in Inside /\ w[i].pc \in Inside /\ c.pc # "probe" /\ c.hook \in HookSteps
    BY <1>1, <1>4, HookCount DEF Inside
  <2> QED
    BY <1>1, <1>2, <1>3, <1>4, <1>5, <2>1, Advance
<1>7. TypeOK'
  BY <1>1, <1>2, <1>6 DEF IInv, TypeOK
<1>8. CandInv'
  BY <1>2, <1>4, <1>6 DEF CandInv, Inside
<1>9. SnapInv'
  <2>1. ~doubt' => w[i].cand = Build(stored, env)
    BY <1>1, <1>2 DEF IInv, CandInv
  <2> QED
    BY <1>2, <2>1 DEF SnapInv
<1>10. ArmedInv'
  BY <1>4, <1>6, HookCount DEF ArmedInv, Inside
<1>11. DoubtInv' /\ AlwaysSendable'
  BY <1>1, <1>2 DEF IInv, DoubtInv, AlwaysSendable
<1> QED
  BY <1>6, <1>7, <1>8, <1>9, <1>10, <1>11 DEF IInv

\* One binding after another is rebuilt from the configuration just stored.
LEMMA HookPreserves ==
    ASSUME IInv, NEW i \in Writers, Hook(i)
    PROVE  IInv'
<1>1. /\ w[i] \in Call /\ w[i].pc = "hook" /\ mu = i /\ w[i].hook \in HookSteps
      /\ w[i].cand = snap /\ snap.values \in Config
  BY DEF IInv, TypeOK, Hook, LockInv, ShapeInv, CandInv, Inside, Effective
<1>2. /\ UNCHANGED <<env, stored, snap, doubt, tainted>>
      /\ armed' = [armed EXCEPT ![w[i].hook] = snap.values]
  BY <1>1 DEF Hook
<1>3. armed' \in [HookSteps -> Config]
  BY <1>1, <1>2 DEF IInv, TypeOK
<1>4. \A h \in HookSteps : h < w[i].hook + 1 => armed'[h] = snap.values
  BY <1>1, <1>2, HookCount DEF IInv, TypeOK, ArmedInv
<1>5. CASE w[i].hook < Len(Hooks)
  <2> DEFINE c == [w[i] EXCEPT !.hook = @ + 1]
  <2>1. c \in Call
    BY <1>1, HookCount DEF Call
  <2>2. /\ c.pc = "hook" /\ c.op = w[i].op /\ c.key = w[i].key /\ c.cand = w[i].cand
        /\ c.hook = w[i].hook + 1 /\ c.hook \in HookSteps
    BY <1>1, <1>5, HookCount DEF Call
  <2>3. w' = [w EXCEPT ![i] = c] /\ mu' = mu
    BY <1>5 DEF Hook
  <2> HIDE DEF c
  <2>4. /\ w' \in [Writers -> Call] /\ w'[i] = c
        /\ \A j \in Writers : j # i => w'[j] = w[j] /\ w[j].pc \notin Inside
        /\ LockInv' /\ ShapeInv'
    BY <1>1, <2>1, <2>2, <2>3, Advance DEF Inside
  <2>5. TypeOK'
    BY <1>2, <1>3, <2>3, <2>4 DEF IInv, TypeOK
  <2>6. CandInv'
    BY <1>1, <1>2, <2>2, <2>4 DEF CandInv, Inside
  <2>7. SnapInv'
    BY <1>1, <1>2, <2>4 DEF IInv, SnapInv, Inside
  <2>8. ArmedInv'
    BY <1>2, <1>4, <2>2, <2>4 DEF ArmedInv, Inside
  <2>9. DoubtInv' /\ AlwaysSendable'
    BY <1>2 DEF IInv, DoubtInv, AlwaysSendable
  <2> QED
    BY <2>4, <2>5, <2>6, <2>7, <2>8, <2>9 DEF IInv
<1>6. CASE ~(w[i].hook < Len(Hooks))
  <2>1. w' = [w EXCEPT ![i] = Idle] /\ mu' = Nobody
    BY <1>6 DEF Hook, Return
  <2>2. /\ w' \in [Writers -> Call] /\ w'[i] = Idle
        /\ \A j \in Writers : j # i => w'[j] = w[j] /\ w[j].pc \notin Inside
    <3>1. Idle \in Call
      BY DEF Idle, Call, Body
    <3> QED
      BY <1>1, <2>1, <3>1 DEF IInv, TypeOK, LockInv
  <2>3. \A h \in HookSteps : armed'[h] = snap'.values
    BY <1>1, <1>2, <1>4, <1>6, HookCount
  <2>4. TypeOK'
    BY <1>2, <1>3, <2>1, <2>2 DEF IInv, TypeOK
  <2>5. LockInv'
    BY <2>1, <2>2, WritersType DEF LockInv, Idle, Inside
  <2>6. ShapeInv'
    BY <2>2 DEF IInv, ShapeInv, Idle, Inside
  <2>7. CandInv'
    BY <2>2 DEF CandInv, Idle, Inside
  <2>8. SnapInv'
    BY <1>1, <1>2, <2>2 DEF IInv, SnapInv, Inside
  <2>9. ArmedInv'
    BY <2>2, <2>3 DEF ArmedInv, Idle, Inside
  <2>10. DoubtInv' /\ AlwaysSendable'
    BY <1>2 DEF IInv, DoubtInv, AlwaysSendable
  <2> QED
    BY <2>4, <2>5, <2>6, <2>7, <2>8, <2>9, <2>10 DEF IInv
<1> QED
  BY <1>5, <1>6

\* A boot reads the table: with no row lost but secrets, and the environment
\* it ran in before, what was sendable still is.
LEMMA RestartPreserves ==
    ASSUME IInv, NEW e \in Envs, NEW unreadable \in {{}, Secrets}, Restart(e, unreadable)
    PROVE  IInv'
<1>1. e \in Config /\ unreadable \in SUBSET Secrets
  BY EnvsType
<1>2. stored' \in Rows /\ env' = e
  BY DEF IInv, TypeOK, Restart, Rows
<1>3. snap' = Build(stored', env') /\ snap' \in Effective
  BY <1>1, <1>2, BuildType DEF Restart
<1>4. armed' = [h \in HookSteps |-> snap'.values] /\ snap'.values \in Config
  BY <1>3 DEF Restart, Effective
<1>5. w' = [i \in Writers |-> Idle] /\ mu' = Nobody /\ doubt' = FALSE /\ Idle \in Call
  BY DEF Restart, Idle, Call, Body
<1>6. tainted' = (tainted \/ e # env)
  BY DEF Restart
<1>7. TypeOK'
  BY <1>1, <1>2, <1>3, <1>4, <1>5, <1>6 DEF IInv, TypeOK
<1>8. LockInv' /\ ShapeInv' /\ CandInv'
  BY <1>5, WritersType DEF LockInv, ShapeInv, CandInv, Idle, Inside
<1>9. SnapInv' /\ ArmedInv' /\ DoubtInv'
  BY <1>3, <1>4, <1>5 DEF SnapInv, ArmedInv, DoubtInv, Idle
<1>10. AlwaysSendable'
  <2> SUFFICES ASSUME ~tainted' PROVE Invariants(snap'.values)
    BY <1>3 DEF AlwaysSendable
  <2>1. ~tainted /\ e = env
    BY <1>6 DEF IInv, TypeOK
  <2>2. Invariants(Build(stored, e).values) /\ stored \in Rows
    BY <2>1 DEF IInv, AlwaysSendable, TypeOK
  <2>3. stored' = [k \in Keys |-> IF k \in unreadable /\ stored[k] # Unset THEN Lost ELSE stored[k]]
    BY DEF Restart
  <2> QED
    BY <1>1, <1>2, <1>3, <2>2, <2>3, SecretsDoNotMatter
<1> QED
  BY <1>7, <1>8, <1>9, <1>10 DEF IInv

-----------------------------------------------------------------------------
(* The theorems *)

\* Every reachable state of the settings satisfies the inductive invariant.
THEOREM SettingsInvariance == Spec => []IInv
<1>1. IInv /\ [Next]_vars => IInv'
  <2> SUFFICES ASSUME IInv, [Next]_vars PROVE IInv'
    OBVIOUS
  <2>1. CASE Next
    BY <2>1, StartPreserves, SetLockPreserves, ResetLockPreserves, ProbePreserves,
       CommitPreserves, StorePreserves, HookPreserves, RestartPreserves DEF Next, Step
  <2>2. CASE UNCHANGED vars
    BY <2>2 DEF vars, IInv, TypeOK, LockInv, ShapeInv, CandInv, SnapInv, ArmedInv,
                DoubtInv, AlwaysSendable, Written
  <2> QED
    BY <2>1, <2>2
<1> QED
  BY <1>1, InitInv, PTL DEF Spec

\* Whatever fails between the statements and the hooks, the configuration the
\* handlers read is the stored one whenever no write is in progress.
THEOREM SettingsRunningIsStored == Spec => []RunningIsStored
<1>1. IInv => RunningIsStored
  BY NobodyInside DEF RunningIsStored
<1> QED
  BY <1>1, SettingsInvariance, PTL

\* No sequence of writes, crashes and restarts in one environment leads to a
\* configuration that demands a mail nobody can send.
THEOREM SettingsAlwaysSendable == Spec => []AlwaysSendable
<1>1. IInv => AlwaysSendable
  BY DEF IInv
<1> QED
  BY <1>1, SettingsInvariance, PTL

\* Both gateway clients, the OIDC settings and the usage reader follow the
\* running configuration whenever no write is in progress.
THEOREM SettingsArmedFollows == Spec => []ArmedFollows
<1>1. IInv => ArmedFollows
  BY NobodyInside DEF ArmedFollows
<1> QED
  BY <1>1, SettingsInvariance, PTL

=============================================================================
