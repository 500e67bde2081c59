----------------------------- MODULE QueryCache -----------------------------
(***************************************************************************)
(* The statement cache of a driver connection (driver.go: Conn's           *)
(* acquireQueryStmt, releaseQueryStmt, closeQueryStmtPool and the callers  *)
(* exec, query, queryRow and close).                                       *)
(*                                                                         *)
(* One statement sits in the fast slot, others in per-query pools.  All    *)
(* operations that talk to the server run under sessionMu, except the one  *)
(* that gives statements back: Rows.Close calls releaseQueryStmt with no   *)
(* lock but queryStmtPoolMu, so it interleaves with everything when a      *)
(* program shares the Conn itself (database/sql serializes the calls).     *)
(* DDL and close bump catalogGeneration and then drain the cache.          *)
(***************************************************************************)
EXTENDS Naturals, Sequences, FiniteSets, SequencesExt

CONSTANTS
    Keys,       \* query texts
    Reused,     \* the ones shouldReuseStmtForQuery accepts
    PoolCap,    \* queryStmtPoolCap
    PerKeyCap,  \* queryStmtPoolPerKeyCap
    MaxStmts,   \* bound: statements created
    MaxGen,     \* bound: catalog generations
    NoKey       \* the fast slot is empty; no query under way

ASSUME QueryCacheAssumption ==
    /\ Reused \subseteq Keys /\ NoKey \notin Keys
    /\ PoolCap \in Nat /\ PerKeyCap \in Nat /\ MaxStmts \in Nat /\ MaxGen \in Nat

Stmts == 1..MaxStmts
NoStmt == 0

VARIABLES
    gen,       \* catalogGeneration
    fast,      \* [key, stmt]: queryStmtFastKey, queryStmtFast
    pool,      \* queryStmtPool
    poolCount, \* queryStmtPoolCount
    created,   \* statements 1..created exist
    stKey,     \* the query a statement was prepared for
    stGen,     \* Stmt.catalogGeneration
    freed,     \* statements on which Stmt.Close was called
    lent,      \* statements behind a Rows the program holds
    parking,   \* statements found reusable, about to be put back
    sess,      \* the operation that holds sessionMu
    closed     \* Conn.close has run

cacheVars == <<fast, pool, poolCount>>
stmtVars  == <<created, stKey, stGen>>
vars == <<gen, cacheVars, stmtVars, freed, lent, parking, sess, closed>>

Idle == [op |-> "none", pc |-> "none", key |-> NoKey, gen |-> 0, stmt |-> NoStmt]

Ops == {"query", "exec", "ddl", "close"}

Sessions ==
    [op: Ops \cup {"none"}, key: Keys \cup {NoKey}, gen: 0..MaxGen, stmt: Stmts \cup {NoStmt},
     pc: {"none", "lookup", "check", "new", "run", "parking", "bump", "drain"}]

TypeOK ==
    /\ gen \in 0..MaxGen /\ closed \in BOOLEAN
    /\ fast \in [key: Keys \cup {NoKey}, stmt: Stmts \cup {NoStmt}]
    /\ pool \in [Keys -> Seq(Stmts)]
    /\ poolCount \in 0..PoolCap
    /\ created \in 0..MaxStmts
    /\ stKey \in [Stmts -> Keys \cup {NoKey}] /\ stGen \in [Stmts -> 0..MaxGen]
    /\ freed \subseteq Stmts /\ lent \subseteq Stmts /\ parking \subseteq Stmts
    /\ sess \in Sessions

Init ==
    /\ gen = 0 /\ closed = FALSE
    /\ fast = [key |-> NoKey, stmt |-> NoStmt]
    /\ pool = [k \in Keys |-> <<>>] /\ poolCount = 0
    /\ created = 0
    /\ stKey = [s \in Stmts |-> NoKey] /\ stGen = [s \in Stmts |-> 0]
    /\ freed = {} /\ lent = {} /\ parking = {}
    /\ sess = Idle

-----------------------------------------------------------------------------
(* acquireQueryStmt, under sessionMu.                                        *)

(* exec with arguments and queryRow ("exec") or query ("query") locks        *)
(* sessionMu and loads the generation.                                       *)
Begin(op, k) ==
    /\ sess = Idle /\ op \in {"query", "exec"}
    /\ sess' = [op |-> op, pc |-> IF k \in Reused THEN "lookup" ELSE "new",
                key |-> k, gen |-> gen, stmt |-> NoStmt]
    /\ UNCHANGED <<gen, cacheVars, stmtVars, freed, lent, parking, closed>>

FastHit(k) == fast.stmt # NoStmt /\ fast.key = k

(* Mutation: a statement stays in its pool while it is used.                 *)
PoolAfterTakeKeeps(k) == pool

PoolAfterTake(k) == [pool EXCEPT ![k] = Front(@)]

(* The lookup, under queryStmtPoolMu.                                        *)
Lookup ==
    /\ sess.pc = "lookup"
    /\ LET k == sess.key IN
       \/ /\ FastHit(k)
          /\ sess' = [sess EXCEPT !.pc = "check", !.stmt = fast.stmt]
          /\ fast' = [key |-> NoKey, stmt |-> NoStmt]
          /\ UNCHANGED <<pool, poolCount>>
       \/ /\ ~FastHit(k) /\ pool[k] # <<>>
          /\ sess' = [sess EXCEPT !.pc = "check", !.stmt = Last(pool[k])]
          /\ pool' = PoolAfterTake(k)
          /\ poolCount' = IF poolCount > 0 THEN poolCount - 1 ELSE poolCount
          /\ UNCHANGED fast
       \/ /\ ~FastHit(k) /\ pool[k] = <<>>
          /\ sess' = [sess EXCEPT !.pc = "new"]
          /\ UNCHANGED cacheVars
    /\ UNCHANGED <<gen, stmtVars, freed, lent, parking, closed>>

(* A cached statement of an older generation is closed and the search starts *)
(* again; otherwise it is prepared again where the server supports it, which *)
(* may fail.                                                                 *)
Check ==
    /\ sess.pc = "check"
    /\ IF stGen[sess.stmt] # sess.gen
       THEN /\ freed' = freed \cup {sess.stmt}
            /\ sess' = [sess EXCEPT !.pc = "lookup", !.gen = gen, !.stmt = NoStmt]
       ELSE \/ sess' = [sess EXCEPT !.pc = "run"] /\ UNCHANGED freed
            \/ sess' = Idle /\ freed' = freed \cup {sess.stmt}
    /\ UNCHANGED <<gen, cacheVars, stmtVars, lent, parking, closed>>

(* NewStmt and prepare; either may fail.                                     *)
NewStmt ==
    /\ sess.pc = "new"
    /\ \/ /\ sess' = Idle /\ UNCHANGED <<stmtVars, freed>>
       \/ /\ ~closed /\ created < MaxStmts
          /\ created' = created + 1
          /\ stKey' = [stKey EXCEPT ![created + 1] = sess.key]
          /\ stGen' = [stGen EXCEPT ![created + 1] = sess.gen]
          /\ \/ sess' = [sess EXCEPT !.pc = "run", !.stmt = created + 1] /\ UNCHANGED freed
             \/ sess' = Idle /\ freed' = freed \cup {created + 1}
    /\ UNCHANGED <<gen, cacheVars, lent, parking, closed>>

(* Bind and execute.  A failure closes the statement; query hands it to the  *)
(* program inside a Rows, exec and queryRow give it back themselves.         *)
Run ==
    /\ sess.pc = "run"
    /\ \/ sess' = Idle /\ freed' = freed \cup {sess.stmt} /\ UNCHANGED <<lent, parking>>
       \/ /\ sess.op = "query"
          /\ lent' = lent \cup {sess.stmt} /\ sess' = Idle
          /\ UNCHANGED <<freed, parking>>
       \/ /\ sess.op = "exec" /\ sess.key \in Reused
          /\ parking' = parking \cup {sess.stmt}
          /\ sess' = [sess EXCEPT !.pc = "parking"]
          /\ UNCHANGED <<freed, lent>>
    /\ UNCHANGED <<gen, cacheVars, stmtVars, closed>>

-----------------------------------------------------------------------------
(* releaseQueryStmt, also without sessionMu.                                 *)

(* Rows.Close: a statement that is not to be reused, or whose cursor is      *)
(* still open, is closed; any other goes on to the cache.                    *)
RowsClose(s) ==
    /\ s \in lent /\ lent' = lent \ {s}
    /\ \/ freed' = freed \cup {s} /\ UNCHANGED parking
       \/ stKey[s] \in Reused /\ parking' = parking \cup {s} /\ UNCHANGED freed
    /\ UNCHANGED <<gen, cacheVars, stmtVars, sess, closed>>

(* Mutations: the generation is not looked at; the caps are off by one.      *)
KeptWhateverGeneration(s) == TRUE
RoomOffByOne(k) == poolCount <= PoolCap /\ Len(pool[k]) <= PerKeyCap

Current(s) == stGen[s] = gen
Room(k) == poolCount < PoolCap /\ Len(pool[k]) < PerKeyCap

(* Mutation: a statement put into a pool is not counted.                     *)
CountUnchanged(n) == n

Counted(n) == n + 1

(* The critical section of releaseQueryStmt: keep the statement or close it. *)
Park(s) ==
    /\ s \in parking /\ parking' = parking \ {s}
    /\ LET k == stKey[s] IN
       \/ /\ Current(s) /\ fast.stmt = NoStmt
          /\ fast' = [key |-> k, stmt |-> s]
          /\ UNCHANGED <<pool, poolCount, freed>>
       \/ /\ Current(s) /\ fast.stmt # NoStmt /\ Room(k)
          /\ pool' = [pool EXCEPT ![k] = Append(@, s)]
          /\ poolCount' = Counted(poolCount)
          /\ UNCHANGED <<fast, freed>>
       \/ /\ ~Current(s) \/ (fast.stmt # NoStmt /\ ~Room(k))
          /\ freed' = freed \cup {s}
          /\ UNCHANGED cacheVars
    /\ sess' = IF sess.pc = "parking" /\ sess.stmt = s THEN Idle ELSE sess
    /\ UNCHANGED <<gen, stmtVars, lent, closed>>

-----------------------------------------------------------------------------
(* Invalidation, under sessionMu.                                            *)

(* exec ran a statement that invalidates the catalog, or Conn.close runs for *)
(* the first time.                                                           *)
Invalidate(op) ==
    /\ sess = Idle /\ op \in {"ddl", "close"} /\ ~closed
    /\ gen < MaxGen
    /\ sess' = [Idle EXCEPT !.op = op, !.pc = "bump"]
    /\ UNCHANGED <<gen, cacheVars, stmtVars, freed, lent, parking, closed>>

Bump ==
    /\ sess.pc = "bump"
    /\ gen' = gen + 1
    /\ sess' = [sess EXCEPT !.pc = "drain"]
    /\ UNCHANGED <<cacheVars, stmtVars, freed, lent, parking, closed>>

Cached == ({fast.stmt} \ {NoStmt}) \cup UNION {ToSet(pool[k]) : k \in Keys}

(* closeQueryStmtPool empties the cache under queryStmtPoolMu and then       *)
(* closes what was in it; close also disconnects.                            *)
Drain ==
    /\ sess.pc = "drain"
    /\ freed' = freed \cup Cached
    /\ fast' = [key |-> NoKey, stmt |-> NoStmt]
    /\ pool' = [k \in Keys |-> <<>>] /\ poolCount' = 0
    /\ closed' = (sess.op = "close")
    /\ sess' = Idle
    /\ UNCHANGED <<gen, stmtVars, lent, parking>>

Next ==
    \/ \E op \in Ops, k \in Keys : Begin(op, k)
    \/ \E op \in Ops : Invalidate(op)
    \/ Lookup \/ Check \/ NewStmt \/ Run \/ Bump \/ Drain
    \/ \E s \in Stmts : RowsClose(s) \/ Park(s)

Spec == Init /\ [][Next]_vars

-----------------------------------------------------------------------------
(* Properties.                                                               *)

InUse == IF sess.pc \in {"check", "run"} THEN {sess.stmt} ELSE {}

(* No statement sits in two places of the cache.                             *)
CachedOnce ==
    \A k \in Keys : \A i \in DOMAIN pool[k] :
        /\ pool[k][i] # fast.stmt
        /\ \A l \in Keys : \A j \in DOMAIN pool[l] :
             pool[k][i] = pool[l][j] => k = l /\ i = j

(* A statement is in one place only: nobody uses a statement that the cache  *)
(* can serve to someone else, no closed statement is served, and none is     *)
(* forgotten (acquireQueryStmt against releaseQueryStmt).                    *)
OneOwner ==
    /\ lent \cup parking \cup Cached \cup freed \cup InUse = 1..created
    /\ InUse \cap (lent \cup parking \cup Cached \cup freed) = {}
    /\ freed \cap (lent \cup parking \cup Cached) = {}
    /\ Cached \cap (lent \cup parking) = {}
    /\ lent \cap parking = {}
    /\ CachedOnce

Slots == UNION {{k} \X DOMAIN pool[k] : k \in Keys}

(* queryStmtPoolCount is the number of pooled statements and the caps hold,  *)
(* whatever order queries, Rows.Close and DDL come in.                       *)
CapsHold ==
    /\ poolCount = Cardinality(Slots)
    /\ poolCount <= PoolCap
    /\ \A k \in Keys : Len(pool[k]) <= PerKeyCap

(* Whenever sessionMu is free the cache holds statements of the current      *)
(* catalog generation only: a Rows.Close that runs between the bump and the  *)
(* drain, or after them, leaves nothing stale behind (releaseQueryStmt reads *)
(* the generation under queryStmtPoolMu).  After Conn.close nothing is       *)
(* cached: a late Rows.Close closes its statement instead of parking it in a *)
(* dead connection.                                                          *)
NothingStaleServed ==
    /\ sess.pc \in {"none", "lookup"} => \A s \in Cached : stGen[s] = gen
    /\ closed => Cached = {}
=============================================================================
