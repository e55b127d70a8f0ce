------------------------------ MODULE Settings ------------------------------
(***************************************************************************)
(* The runtime settings: overrides stored in Postgres over defaults from   *)
(* the environment, the snapshot every handler reads without a lock, and   *)
(* what is re-armed from it.  Set and Reset are serialised by a mutex, but *)
(* each is several steps, any of which may fail, and the process may stop  *)
(* and boot again between any two.                                         *)
(***************************************************************************)
EXTENDS Naturals, Sequences

CONSTANTS
    Keys,          \* registry keys
    Verify,        \* REQUIRE_EMAIL_VERIFICATION
    Smtp,          \* the keys SMTPConfigured wants: SMTP_HOST, SMTP_FROM
    Secrets,       \* keys stored encrypted
    Values, Empty, \* wire values; Empty is ""
    Unset,         \* no row for a key, or a key a request does not mention
    Lost,          \* a row that no longer decrypts
    Envs,          \* environments the process may be started in
    Writers,       \* admin requests that may be in progress together
    Nobody,
    Changes,       \* the bodies of PUT /api/admin/settings
    CommitMayLie   \* a COMMIT that took effect may report an error

Config == [Keys -> Values]
Rows == [Keys -> Values \cup {Unset, Lost}]
Body == [Keys -> Values \cup {Unset}]
Effective == [values : Config, source : [Keys -> {"env", "db"}]]

\* What the change hook rebuilds, in its order.
Hooks == <<"production", "sandbox", "oidc", "usage">>
HookSteps == 1..Len(Hooks)

\* REQUIRE_EMAIL_VERIFICATION needs a mail server.
Invariants(values) == values[Verify] # Empty => \A k \in Smtp : values[k] # Empty

ASSUME KeysType == Verify \in Keys /\ Smtp \subseteq Keys /\ Secrets \subseteq Keys
ASSUME SecretsElsewhere == Secrets \cap (Smtp \cup {Verify}) = {}
ASSUME ValuesType == Empty \in Values /\ Unset \notin Values /\ Lost \notin Values /\ Lost # Unset
ASSUME EnvsType == Envs \subseteq Config
ASSUME WritersType == Nobody \notin Writers
ASSUME ChangesType == Changes \subseteq Body
ASSUME LieType == CommitMayLie \in BOOLEAN

VARIABLES
    env,      \* Service.env: immutable until the process is started again
    stored,   \* table portal_settings
    mu,       \* Service.mu: the writer that holds it
    snap,     \* Service.snap
    armed,    \* per hook target: the values it was last built from
    w,        \* the Set and Reset calls in progress
    doubt,    \* history: a commit reported an error and nothing reloaded the table since
    tainted   \* history: that ever happened, or the environment ever changed

vars == <<env, stored, mu, snap, armed, w, doubt, tainted>>

Idle == [pc |-> "idle", op |-> "none", body |-> [k \in Keys |-> Unset], key |-> Unset,
         cand |-> Unset, hook |-> 0]
Call == [pc : {"idle", "lock", "probe", "commit", "store", "hook"},
         op : {"none", "set", "reset"}, body : Body, key : Keys \cup {Unset},
         cand : Effective \cup {Unset}, hook : Nat]

TypeOK ==
    /\ env \in Config
    /\ stored \in Rows
    /\ mu \in Writers \cup {Nobody}
    /\ snap \in Effective
    /\ armed \in [HookSteps -> Config]
    /\ w \in [Writers -> Call]
    /\ doubt \in BOOLEAN
    /\ tainted \in BOOLEAN

-----------------------------------------------------------------------------
(* Pure helpers *)

\* A row that does not decrypt is skipped: the environment applies.
Build(rows, e) == [values |-> [k \in Keys |-> IF rows[k] \in Values THEN rows[k] ELSE e[k]],
                   source |-> [k \in Keys |-> IF rows[k] \in Values THEN "db" ELSE "env"]]

Candidate(body) ==
    [values |-> [k \in Keys |-> IF body[k] = Unset THEN snap.values[k] ELSE body[k]],
     source |-> [k \in Keys |-> IF body[k] = Unset THEN snap.source[k] ELSE "db"]]

\* The table after the request's statements.
Written(c) == IF c.op = "set"
              THEN [k \in Keys |-> IF c.body[k] = Unset THEN stored[k] ELSE c.body[k]]
              ELSE [stored EXCEPT ![c.key] = Unset]

\* config.Validate refuses an environment that breaks the rule by itself.
Init ==
    /\ env \in {e \in Envs : Invariants(e)}
    /\ stored = [k \in Keys |-> Unset]
    /\ mu = Nobody
    /\ snap = Build(stored, env)
    /\ armed = [h \in HookSteps |-> env]
    /\ w = [i \in Writers |-> Idle]
    /\ doubt = FALSE /\ tainted = FALSE

-----------------------------------------------------------------------------
(* Set and Reset *)

Return(i) == w' = [w EXCEPT ![i] = Idle]
Goto(i, pc) == w' = [w EXCEPT ![i] = [@ EXCEPT !.pc = pc]]

\* checkKeys accepted the body; the call now waits for the mutex.
StartSet(i, body) ==
    /\ w[i] = Idle
    /\ w' = [w EXCEPT ![i] = [Idle EXCEPT !.pc = "lock", !.op = "set", !.body = body]]
    /\ UNCHANGED <<env, stored, mu, snap, armed, doubt, tainted>>

StartReset(i, k) ==
    /\ w[i] = Idle
    /\ w' = [w EXCEPT ![i] = [Idle EXCEPT !.pc = "lock", !.op = "reset", !.key = k]]
    /\ UNCHANGED <<env, stored, mu, snap, armed, doubt, tainted>>

\* Mutant: the mutex guards the reading of the snapshot only.
SetLockBriefly(i) ==
    /\ w[i].pc = "lock" /\ w[i].op = "set" /\ mu = Nobody
    /\ LET cand == Candidate(w[i].body) IN
       IF Invariants(cand.values)
       THEN \E pc \in {"probe", "commit"} :
               w' = [w EXCEPT ![i] = [@ EXCEPT !.pc = pc, !.cand = cand]]
       ELSE Return(i)
    /\ UNCHANGED <<env, stored, mu, snap, armed, doubt, tainted>>

\* The mutex is taken, the candidate made from the snapshot and its rules
\* checked; a force skips the probe only.
SetLock(i) ==
    /\ w[i].pc = "lock" /\ w[i].op = "set" /\ mu = Nobody
    /\ LET cand == Candidate(w[i].body) IN
       IF Invariants(cand.values)
       THEN /\ mu' = i
            /\ \E pc \in {"probe", "commit"} :
                  w' = [w EXCEPT ![i] = [@ EXCEPT !.pc = pc, !.cand = cand]]
       ELSE Return(i) /\ UNCHANGED mu
    /\ UNCHANGED <<env, stored, snap, armed, doubt, tainted>>

\* Mutant: a reset is not asked whether it breaks the rule.
ResetLockUnchecked(i) ==
    /\ w[i].pc = "lock" /\ w[i].op = "reset" /\ mu = Nobody
    /\ LET next == Build(Written(w[i]), env) IN
       \/ /\ mu' = i
          /\ w' = [w EXCEPT ![i] = [@ EXCEPT !.pc = "commit", !.cand = next]]
       \/ Return(i) /\ UNCHANGED mu
    /\ UNCHANGED <<env, stored, snap, armed, doubt, tainted>>

\* The same, but from the table, which may fail to load.
ResetLock(i) ==
    /\ w[i].pc = "lock" /\ w[i].op = "reset" /\ mu = Nobody
    /\ LET next == Build(Written(w[i]), env) IN
       \/ /\ Invariants(next.values)
          /\ mu' = i
          /\ w' = [w EXCEPT ![i] = [@ EXCEPT !.pc = "commit", !.cand = next]]
       \/ Return(i) /\ UNCHANGED mu
    /\ UNCHANGED <<env, stored, snap, armed, doubt, tainted>>

\* Mutant: the failed probe returns without the deferred Unlock.
ProbeKeepsLock(i) ==
    /\ w[i].pc = "probe"
    /\ \/ Goto(i, "commit")
       \/ Return(i)
    /\ UNCHANGED <<env, stored, mu, snap, armed, doubt, tainted>>

Probe(i) ==
    /\ w[i].pc = "probe"
    /\ \/ Goto(i, "commit") /\ UNCHANGED mu
       \/ Return(i) /\ mu' = Nobody
    /\ UNCHANGED <<env, stored, snap, armed, doubt, tainted>>

\* The statements and the commit, all or nothing.
Commit(i) ==
    /\ w[i].pc = "commit"
    /\ \/ /\ stored' = Written(w[i])
          /\ Goto(i, "store")
          /\ UNCHANGED <<mu, doubt, tainted>>
       \/ /\ Return(i) /\ mu' = Nobody
          /\ UNCHANGED <<stored, doubt, tainted>>
       \/ /\ CommitMayLie
          /\ stored' = Written(w[i])
          /\ Return(i) /\ mu' = Nobody
          /\ doubt' = TRUE /\ tainted' = TRUE
    /\ UNCHANGED <<env, snap, armed>>

\* Mutant: the mutex is released before the hooks.
StoreAndUnlock(i) ==
    /\ w[i].pc = "store"
    /\ snap' = w[i].cand
    /\ mu' = Nobody
    /\ w' = [w EXCEPT ![i] = [@ EXCEPT !.pc = "hook", !.hook = 1]]
    /\ doubt' = (doubt /\ w[i].op = "set")
    /\ UNCHANGED <<env, stored, armed, tainted>>

\* A reset made its candidate from the table: it ends the doubt.
Store(i) ==
    /\ w[i].pc = "store"
    /\ snap' = w[i].cand
    /\ w' = [w EXCEPT ![i] = [@ EXCEPT !.pc = "hook", !.hook = 1]]
    /\ doubt' = (doubt /\ w[i].op = "set")
    /\ UNCHANGED <<env, stored, mu, armed, tainted>>

\* Mutant: the last binding is forgotten.
HookShort(i) ==
    /\ w[i].pc = "hook"
    /\ armed' = [armed EXCEPT ![w[i].hook] = w[i].cand.values]
    /\ IF w[i].hook < Len(Hooks) - 1
       THEN /\ w' = [w EXCEPT ![i].hook = w[i].hook + 1]
            /\ UNCHANGED mu
       ELSE Return(i) /\ mu' = Nobody
    /\ UNCHANGED <<env, stored, snap, doubt, tainted>>

\* One binding is rebuilt; after the last one the mutex is released.
Hook(i) ==
    /\ w[i].pc = "hook"
    /\ armed' = [armed EXCEPT ![w[i].hook] = w[i].cand.values]
    /\ IF w[i].hook < Len(Hooks)
       THEN /\ w' = [w EXCEPT ![i].hook = w[i].hook + 1]
            /\ UNCHANGED mu
       ELSE Return(i) /\ mu' = Nobody
    /\ UNCHANGED <<env, stored, snap, doubt, tainted>>

\* The process stops anywhere and boots, in an environment that is valid by
\* itself; a new encryption key makes the stored secrets unreadable.
Restart(e, unreadable) ==
    /\ Invariants(e)
    /\ env' = e
    /\ stored' = [k \in Keys |-> IF k \in unreadable /\ stored[k] # Unset THEN Lost ELSE stored[k]]
    /\ snap' = Build(stored', e)
    /\ armed' = [h \in HookSteps |-> snap'.values]
    /\ w' = [i \in Writers |-> Idle]
    /\ mu' = Nobody
    /\ doubt' = FALSE
    /\ tainted' = (tainted \/ e # env)

Step(i) == SetLock(i) \/ ResetLock(i) \/ Probe(i) \/ Commit(i) \/ Store(i) \/ Hook(i)

Next ==
    \/ \E i \in Writers, body \in Changes : StartSet(i, body)
    \/ \E i \in Writers, k \in Keys : StartReset(i, k)
    \/ \E i \in Writers : Step(i)
    \/ \E e \in Envs, unreadable \in {{}, Secrets} : Restart(e, unreadable)

Spec == Init /\ [][Next]_vars

\* The goroutine of a call runs, its probe and statements time out, and a
\* waiting Lock is granted in turn (sync.Mutex's starvation mode).
FairSpec == Spec /\ \A i \in Writers : SF_vars(Step(i))

-----------------------------------------------------------------------------
(* Properties *)

\* With no call in progress the running configuration is the stored one over
\* the environment, unless a commit's error was mistaken and nothing has read
\* the table since: a Reset or a restart brings them together again.
RunningIsStored == mu = Nobody /\ ~doubt => snap = Build(stored, env)

\* As long as commits report the truth and the environment stays, neither the
\* running configuration nor the one a restart would boot requires a
\* verification mail nobody can send, wherever the process stopped before.
AlwaysSendable ==
    ~tainted => Invariants(snap.values) /\ Invariants(Build(stored, env).values)

\* With no call in progress, both gateway clients, the OIDC settings and the
\* usage reader are built from the running configuration.
ArmedFollows == mu = Nobody => \A h \in HookSteps : armed[h] = snap.values

\* The rule "must hold in any effective configuration, DB-backed or not".
EffectiveSendable == Invariants(snap.values)

\* No call hangs on the mutex or on another call: every Set or Reset returns.
EveryCallReturns == \A i \in Writers : w[i].pc # "idle" ~> w[i].pc = "idle"

-----------------------------------------------------------------------------
(* The inductive invariant *)

Inside == {"probe", "commit", "store", "hook"}

\* The mutex is held by the one call that is past Lock.
LockInv == \A i \in Writers : w[i].pc \in Inside <=> mu = i

ShapeInv == \A i \in Writers :
    /\ w[i].pc # "idle" => w[i].op \in {"set", "reset"}
    /\ w[i].op = "reset" => w[i].key \in Keys /\ w[i].pc # "probe"
    /\ w[i].pc = "idle" => w[i] = Idle
    /\ w[i].pc \in Inside => w[i].cand \in Effective /\ Invariants(w[i].cand.values)
    /\ w[i].pc = "hook" => w[i].hook \in HookSteps

\* What the holder is about to store is what it is about to write.
CandInv == \A i \in Writers :
    /\ w[i].pc \in {"probe", "commit"} /\ (w[i].op = "reset" \/ ~doubt) =>
           w[i].cand = Build(Written(w[i]), env)
    /\ w[i].pc = "store" /\ (w[i].op = "reset" \/ ~doubt) => w[i].cand = Build(stored, env)
    /\ w[i].pc = "hook" => w[i].cand = snap

\* Only between commit and store are the two apart.
SnapInv == ~doubt /\ (\A i \in Writers : w[i].pc # "store") => snap = Build(stored, env)

ArmedInv ==
    /\ (\A i \in Writers : w[i].pc # "hook") => \A h \in HookSteps : armed[h] = snap.values
    /\ \A i \in Writers : w[i].pc = "hook" =>
           \A h \in HookSteps : h < w[i].hook => armed[h] = snap.values

DoubtInv == doubt => tainted

IInv == TypeOK /\ LockInv /\ ShapeInv /\ CandInv /\ SnapInv /\ ArmedInv /\ DoubtInv /\ AlwaysSendable

=============================================================================
