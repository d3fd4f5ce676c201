----------------------------- MODULE QuicClient -----------------------------
(***************************************************************************)
(* The QUIC client of the broker link (QuicClient in                       *)
(* runlet/src/broker.rs): one cached connection, shared by the sessions of *)
(* concurrent requests, replaced when it is found closed.                  *)
(*                                                                         *)
(* The cache is a tokio mutex, which serves its waiters in order and is    *)
(* held while connect_any dials.  A connection may die at any moment; one  *)
(* that nobody refers to any more is closed by quinn.  A request that is   *)
(* dropped at an await lets go of the mutex.                               *)
(***************************************************************************)
EXTENDS Naturals, FiniteSets

CONSTANTS
    Sessions,    \* the requests that open a session
    Conns,       \* bound: the connections that can be established
    NoConn       \* no connection

ASSUME QuicAssumption ==
    IsFiniteSet(Sessions) /\ "free" \notin Sessions /\ NoConn \notin Conns

VARIABLES
    cached,      \* QuicClient.connection
    holder,      \* the session that holds its mutex, or "free"
    state,       \* connection -> "unused", "open" or "closed"
    at,          \* session -> the step of open_session it is at
    conn,        \* session -> the connection it works with
    deaths,      \* connections that have died (history)
    deathsAt     \* session -> deaths when it began

quicVars == <<cached, holder, state, at, conn, deaths, deathsAt>>

QuicSteps == {"idle", "lock1", "live1", "dial1", "open1", "lock_inval", "inval", "lock2",
          "live2", "dial2", "open2", "streaming", "failed_dial", "failed_open", "done", "dropped"}

QuicInit ==
    /\ cached = NoConn /\ holder = "free"
    /\ state = [c \in Conns |-> "unused"]
    /\ at = [s \in Sessions |-> "idle"]
    /\ conn = [s \in Sessions |-> NoConn]
    /\ deaths = 0
    /\ deathsAt = [s \in Sessions |-> 0]

StepTo(s, step) == at' = [at EXCEPT ![s] = step]

-----------------------------------------------------------------------------

\* A request reaches connect_session.
Begin(s) ==
    /\ at[s] = "idle"
    /\ StepTo(s, "lock1")
    /\ deathsAt' = [deathsAt EXCEPT ![s] = deaths]
    /\ UNCHANGED <<cached, holder, state, conn, deaths>>

\* self.connection.lock().await
Locks(s, from, to) ==
    /\ at[s] = from /\ holder = "free"
    /\ holder' = s
    /\ StepTo(s, to)
    /\ UNCHANGED <<cached, state, conn, deaths, deathsAt>>

Lock(s) ==
    Locks(s, "lock1", "live1") \/ Locks(s, "lock_inval", "inval") \/ Locks(s, "lock2", "live2")

Live(c) == c # NoConn /\ state[c] = "open"

OpenStep(s) == IF at[s] \in {"live1", "dial1"} THEN "open1" ELSE "open2"

\* Mutant: close_reason is not consulted.
ReuseConnectionUnchecked(s) ==
    /\ at[s] \in {"live1", "live2"}
    /\ cached # NoConn
    /\ conn' = [conn EXCEPT ![s] = cached]
    /\ holder' = "free"
    /\ StepTo(s, OpenStep(s))
    /\ UNCHANGED <<cached, state, deaths, deathsAt>>

\* live_connection: the cached connection is still open.
ReuseConnection(s) ==
    /\ at[s] \in {"live1", "live2"}
    /\ Live(cached)
    /\ conn' = [conn EXCEPT ![s] = cached]
    /\ holder' = "free"
    /\ StepTo(s, OpenStep(s))
    /\ UNCHANGED <<cached, state, deaths, deathsAt>>

\* live_connection: there is none, or it is closed.
NeedsConnection(s) ==
    /\ at[s] \in {"live1", "live2"}
    /\ ~Live(cached)
    /\ StepTo(s, IF at[s] = "live1" THEN "dial1" ELSE "dial2")
    /\ UNCHANGED <<cached, holder, state, conn, deaths, deathsAt>>

\* connect_any reaches a replica; the connection is cached.
Connect(s) ==
    /\ at[s] \in {"dial1", "dial2"}
    /\ \E c \in Conns :
          /\ state[c] = "unused"
          /\ state' = [state EXCEPT ![c] = "open"]
          /\ cached' = c
          /\ conn' = [conn EXCEPT ![s] = c]
    /\ holder' = "free"
    /\ StepTo(s, OpenStep(s))
    /\ UNCHANGED <<deaths, deathsAt>>

\* Mutant: the error path keeps the mutex.
ConnectFailsHolding(s) ==
    /\ at[s] \in {"dial1", "dial2"}
    /\ StepTo(s, "failed_dial")
    /\ UNCHANGED <<cached, holder, state, conn, deaths, deathsAt>>

\* connect_any: no replica answered; the `?` drops the guard.
ConnectFails(s) ==
    /\ at[s] \in {"dial1", "dial2"}
    /\ holder' = "free"
    /\ StepTo(s, "failed_dial")
    /\ UNCHANGED <<cached, state, conn, deaths, deathsAt>>

\* open_bi on a connection that is alive, once the broker grants a stream: it
\* allows MAX_BIDI_STREAMS at a time, and may withhold them for ever.
OpenStream(s) ==
    /\ at[s] \in {"open1", "open2"} /\ Live(conn[s])
    /\ StepTo(s, "streaming")
    /\ UNCHANGED <<cached, holder, state, conn, deaths, deathsAt>>

\* open_bi fails the first time: invalidate and try again; then for good.
OpenFails(s) ==
    /\ at[s] \in {"open1", "open2"} /\ ~Live(conn[s])
    /\ StepTo(s, IF at[s] = "open1" THEN "lock_inval" ELSE "failed_open")
    /\ conn' = [conn EXCEPT ![s] = NoConn]
    /\ UNCHANGED <<cached, holder, state, deaths, deathsAt>>

\* invalidate: whatever is cached by now is dropped.
Invalidate(s) ==
    /\ at[s] = "inval"
    /\ cached' = NoConn
    /\ holder' = "free"
    /\ StepTo(s, "lock2")
    /\ UNCHANGED <<state, conn, deaths, deathsAt>>

\* The execution is over and the stream is dropped.
Finish(s) ==
    /\ at[s] = "streaming"
    /\ StepTo(s, "done")
    /\ conn' = [conn EXCEPT ![s] = NoConn]
    /\ UNCHANGED <<cached, holder, state, deaths, deathsAt>>

\* The request's future is dropped while it waits or dials.
Drop(s) ==
    /\ at[s] \in {"lock1", "dial1", "open1", "lock_inval", "lock2", "dial2", "open2"}
    /\ holder' = IF holder = s THEN "free" ELSE holder
    /\ conn' = [conn EXCEPT ![s] = NoConn]
    /\ StepTo(s, "dropped")
    /\ UNCHANGED <<cached, state, deaths, deathsAt>>

\* A replica restarts, the network fails or the idle timeout strikes.
Dies(c) ==
    /\ state[c] = "open"
    /\ state' = [state EXCEPT ![c] = "closed"]
    /\ deaths' = deaths + 1
    /\ UNCHANGED <<cached, holder, at, conn, deathsAt>>

\* quinn closes a connection without handles or streams.
Unreferenced(c) ==
    /\ state[c] = "open" /\ cached # c /\ \A s \in Sessions : conn[s] # c
    /\ state' = [state EXCEPT ![c] = "closed"]
    /\ UNCHANGED <<cached, holder, at, conn, deaths, deathsAt>>

-----------------------------------------------------------------------------

Scheduled(s) ==
    \/ ReuseConnection(s) \/ NeedsConnection(s) \/ Connect(s) \/ ConnectFails(s)
    \/ OpenFails(s) \/ Invalidate(s)

SessionStep(s) == Scheduled(s) \/ OpenStream(s)

QuicNext ==
    \/ \E s \in Sessions : Begin(s) \/ Lock(s) \/ SessionStep(s) \/ Finish(s) \/ Drop(s)
    \/ \E c \in Conns : Dies(c) \/ Unreferenced(c)

QuicSpec == QuicInit /\ [][QuicNext]_quicVars

\* A session is scheduled, a dial ends (QUIC handshakes time out) and the mutex
\* is granted in order, so that a waiter is not passed over for ever.  The broker
\* owes no stream.
QuicFairSpec ==
    /\ QuicSpec
    /\ \A s \in Sessions : WF_quicVars(Scheduled(s)) /\ SF_quicVars(Lock(s))

-----------------------------------------------------------------------------
(* Properties                                                              *)

\* The state is well formed; the mutex is held exactly between a lock and the
\* end of its block.
QuicTypeOK ==
    /\ cached \in Conns \cup {NoConn} /\ holder \in Sessions \cup {"free"}
    /\ state \in [Conns -> {"unused", "open", "closed"}]
    /\ at \in [Sessions -> QuicSteps] /\ conn \in [Sessions -> Conns \cup {NoConn}]
    /\ deaths \in Nat /\ deathsAt \in [Sessions -> Nat]
    /\ \A s \in Sessions : holder = s <=> at[s] \in {"live1", "dial1", "inval", "live2", "dial2"}

\* broker.rs:178-179, reconnecting once: a session whose dials succeed fails
\* only if two connections died while it was being opened.  A connection that
\* was dead before, or that other sessions invalidate, never costs a request.
RetryAbsorbsOneDeath ==
    \A s \in Sessions : at[s] = "failed_open" => deaths - deathsAt[s] >= 2

\* Concurrent sessions share one connection: as long as none has died, no
\* second one is dialled, although the first sessions all find the cache empty.
OneDialWhileAlive ==
    deaths = 0 => \A c, d \in Conns : state[c] # "unused" /\ state[d] # "unused" => c = d

\* The shared connection serves its sessions: its death costs a request at most the retry,
\* and while it lives there is no second one (open, live_connection, invalidate).
ConnectionShared == RetryAbsorbsOneDeath /\ OneDialWhileAlive

AwaitsStream(s) == at[s] \in {"open1", "open2"} /\ Live(conn[s])

\* Every session is opened or refused, or the broker withholds a stream of a live
\* connection for ever: none waits for ever on the mutex, on a dial or on a dead
\* connection, whoever else waits for a stream or was dropped while it dialled.
SessionsOpen ==
    \A s \in Sessions :
        at[s] = "lock1" ~>
            \/ at[s] \in {"streaming", "failed_dial", "failed_open", "done", "dropped"}
            \/ []AwaitsStream(s)

-----------------------------------------------------------------------------
(* Claims of comments and specifications that the code does not meet; the   *)
(* README describes the counterexamples                                     *)

InUse(c) == state[c] = "open" /\ (cached = c \/ \E s \in Sessions : conn[s] = c)

\* broker.rs:16-17, "keeps one long-lived connection per healthy replica", and
\* broker.rs:129-130, "Holds one live [`Connection`] for reuse": there is never
\* more than one open connection in use.
OneLiveConnection == Cardinality({c \in Conns : InUse(c)}) <= 1
=============================================================================
