------------------------------- MODULE Proxy -------------------------------
(***************************************************************************)
(* The request threads of the HTTP proxy (proxy.cpp) around one cache and  *)
(* one mutex.  The cache is the store that LRUCache is shown to implement. *)
(*                                                                         *)
(* A critical section that locks, works and unlocks is one step that needs *)
(* the mutex free; so is a run of them with no other step in between.  The *)
(* peers are clients and origin servers: what they send and when is free.  *)
(*                                                                         *)
(* A definition that Next does not use is a wrong form of the definition   *)
(* it precedes, which PROJECT.json lists as a mutant.                      *)
(***************************************************************************)
EXTENDS Integers, FiniteSets

CONSTANTS
    Threads,   \* threads that serve requests at the same time
    Lines,     \* first lines of GET requests, the keys of the cache
    Heads,     \* headers of responses the cache may keep
    NoEntry,   \* Response()
    None,      \* no thread
    CACHE_CAPACITY   \* lines the cache keeps at most

ASSUME ProxyAssumption ==
    /\ Heads \subseteq [noCache : BOOLEAN, etag : BOOLEAN, modified : BOOLEAN,
                        limited : BOOLEAN]
    /\ NoEntry \notin Heads /\ None \notin Threads
    /\ CACHE_CAPACITY \in Nat \ {0}

VARIABLES
    alive,    \* no thread has thrown, and no signal has ended the process
    at,       \* where a thread is
    line,     \* the request line it read
    entry,    \* its copy of what the cache had for the line
    got,      \* a response of the origin that it may cache
    checked,  \* threads whose conditional request was answered, or hung up on
    mutex,    \* the thread that keeps the mutex between its steps
    store, newer, answer   \* the cache: see RecencyStore

vars == <<alive, at, line, entry, got, checked, mutex, store, newer, answer>>
cache == <<store, newer, answer>>
Cache == INSTANCE RecencyStore WITH
    Keys <- Lines, Values <- Heads, NoValue <- NoEntry, Capacity <- CACHE_CAPACITY

\* Where a thread waits for a peer: to read from it, or to write to it
PeerWaits == {"reading", "dial", "ask", "asked", "reply", "rest", "deliver", "relay",
              "serve", "greet", "tunnel", "upload", "await", "respond"}
Points == PeerWaits \cup
    {"done", "bad", "request", "lookup", "judge", "expired", "forward", "received",
     "chunked", "store", "hit", "relock", "connect", "opened", "post", "posted", "log"}

Init ==
    /\ alive = TRUE
    /\ at = [t \in Threads |-> "done"]
    /\ line \in [Threads -> Lines]
    /\ entry = [t \in Threads |-> NoEntry] /\ got = [t \in Threads |-> NoEntry]
    /\ checked = {} /\ mutex = None
    /\ Cache!Init

Free == mutex = None
Goto(t, from, to) == at[t] = from /\ at' = [at EXCEPT ![t] = to]

-----------------------------------------------------------------------------
(* run and handleRequest *)

\* A thread that is done stands for the next one that run starts.
Accept(t) ==
    /\ Free /\ Goto(t, "done", "reading")
    /\ entry' = [entry EXCEPT ![t] = NoEntry]
    /\ got' = [got EXCEPT ![t] = NoEntry]
    /\ checked' = checked \ {t}
    /\ UNCHANGED <<alive, line, mutex, cache>>

\* An empty input ends the thread at once, a bad method after it was logged.
Read(t) ==
    /\ \/ \E l \in Lines : line' = [line EXCEPT ![t] = l] /\ Goto(t, "reading", "request")
       \/ \E to \in {"done", "bad"} : Goto(t, "reading", to) /\ UNCHANGED line
    /\ UNCHANGED <<alive, entry, got, checked, mutex, cache>>

\* Critical sections that only write to the log
Log(t) ==
    /\ Free
    /\ \/ Goto(t, "request", "dial") \/ Goto(t, "bad", "done")
       \/ Goto(t, "connect", "greet") \/ Goto(t, "opened", "tunnel")
       \/ Goto(t, "post", "upload") \/ Goto(t, "posted", "respond")
       \/ Goto(t, "log", "done")
    /\ UNCHANGED <<alive, line, entry, got, checked, mutex, cache>>

\* The connection to the origin, and then by method
Dial(t) ==
    /\ \E to \in {"lookup", "connect", "post", "done"} : Goto(t, "dial", to)
    /\ UNCHANGED <<alive, line, entry, got, checked, mutex, cache>>

BlindIfEither(head) == ~head.etag \/ ~head.modified  \* || for &&
\* shouldUseCache has nothing to ask the origin with.
Blind(head) == ~head.etag /\ ~head.modified

\* cache.get under the mutex; what was copied is judged without it.
Lookup(t) ==
    /\ Free /\ at[t] = "lookup" /\ Cache!Get(line[t])
    /\ entry' = [entry EXCEPT ![t] = answer']
    /\ Goto(t, "lookup",
            IF answer' = NoEntry THEN "forward"
            ELSE IF ~answer'.noCache THEN "judge"
            ELSE IF Blind(answer') THEN "serve" ELSE "ask")
    /\ UNCHANGED <<alive, line, got, checked, mutex>>

-----------------------------------------------------------------------------
(* handleCachedResponse and shouldUseCache *)

\* Time is left open: what can expire may have expired.
Judge(t) ==
    /\ \/ Goto(t, "judge", "expired") /\ entry[t].limited
       \/ Goto(t, "judge", "hit") /\ Blind(entry[t])
       \/ Goto(t, "judge", "ask") /\ ~Blind(entry[t])
    /\ UNCHANGED <<alive, line, entry, got, checked, mutex, cache>>

RemoveKeepsMutex(t) ==    \* no unlock after the log
    /\ Free /\ mutex' = t
    /\ Goto(t, "expired", "forward") /\ Cache!Remove(line[t])
    /\ UNCHANGED <<alive, line, entry, got, checked>>
\* cache.remove, of whatever the line has by now
Remove(t) ==
    /\ Free
    /\ Goto(t, "expired", "forward") /\ Cache!Remove(line[t])
    /\ UNCHANGED <<alive, line, entry, got, checked, mutex>>

Ask(t) ==
    /\ Goto(t, "ask", "asked")
    /\ UNCHANGED <<alive, line, entry, got, checked, mutex, cache>>

\* Only a 200 makes the copy unusable: a 304, any other answer, and a closed
\* connection do not.
Answered(t) ==
    /\ \/ Goto(t, "asked", "forward")
       \/ Goto(t, "asked", "serve") /\ entry[t].noCache
       \/ Goto(t, "asked", "hit") /\ ~entry[t].noCache
    /\ checked' = checked \cup {t}
    /\ UNCHANGED <<alive, line, entry, got, mutex, cache>>

\* The second pthread_mutex_lock of a default mutex by its owner: the thread
\* has no step from here on, and nobody else takes the mutex.
Hit(t) ==
    /\ Free /\ mutex' = t
    /\ Goto(t, "hit", "relock")
    /\ UNCHANGED <<alive, line, entry, got, checked, cache>>

\* sendCachedResponseToClient
Serve(t) ==
    /\ Goto(t, "serve", "log")
    /\ UNCHANGED <<alive, line, entry, got, checked, mutex, cache>>

-----------------------------------------------------------------------------
(* handleGetRequest *)

Forward(t) ==
    /\ Free /\ Goto(t, "forward", "reply")
    /\ UNCHANGED <<alive, line, entry, got, checked, mutex, cache>>

\* The first read of the answer, or of what was left of the answer to a
\* conditional request.  got is what printCacheLog would keep: a status line
\* with 200 and no no-store, not chunked.
Reply(t) ==
    /\ \/ \E h \in Heads \cup {NoEntry} :
            got' = [got EXCEPT ![t] = h] /\ Goto(t, "reply", "received")
       \/ Goto(t, "reply", "chunked") /\ UNCHANGED got
       \/ /\ Goto(t, "reply", IF entry[t] = NoEntry THEN "done" ELSE "log")
          /\ UNCHANGED got
    /\ UNCHANGED <<alive, line, entry, checked, mutex, cache>>

\* With a Content-Length the rest is read first.
LogReply(t) ==
    /\ Free
    /\ \/ Goto(t, "received", "rest") \/ Goto(t, "received", "deliver")
       \/ Goto(t, "chunked", "relay")
    /\ UNCHANGED <<alive, line, entry, got, checked, mutex, cache>>

\* receiveWithContentLength: all the rest, or as much as came
Rest(t) ==
    /\ Goto(t, "rest", "deliver")
    /\ UNCHANGED <<alive, line, entry, got, checked, mutex, cache>>

Relay(t) ==
    /\ Goto(t, "relay", "log")
    /\ UNCHANGED <<alive, line, entry, got, checked, mutex, cache>>

Deliver(t) ==
    /\ Goto(t, "deliver", IF got[t] = NoEntry THEN "log" ELSE "store")
    /\ UNCHANGED <<alive, line, entry, got, checked, mutex, cache>>

StoreNeverEvicts(t) ==
    /\ Free /\ Goto(t, "store", "log")
    /\ Cache!Put(line[t], got[t], {})
    /\ UNCHANGED <<alive, line, entry, got, checked, mutex>>
\* printCacheLog
Store(t) ==
    /\ Free /\ Goto(t, "store", "log")
    /\ \E evicted \in Cache!Evictions :
         Cache!Put(line[t], got[t], evicted) /\ Cache!Bounded'
    /\ UNCHANGED <<alive, line, entry, got, checked, mutex>>

-----------------------------------------------------------------------------
(* handleConnectRequest, handlePOSTRequest, and peers that fail *)

\* The tunnel ends when either side does.
Tunnel(t) ==
    /\ Goto(t, "greet", "opened") \/ Goto(t, "tunnel", "log")
    /\ UNCHANGED <<alive, line, entry, got, checked, mutex, cache>>

\* Without a Content-Length, or if the client fails, the thread ends; then it
\* waits for the answer to a request that it has not sent.
Post(t) ==
    /\ \/ \E to \in {"done", "await"} : Goto(t, "upload", to)
       \/ \E to \in {"done", "posted"} : Goto(t, "await", to)
       \/ Goto(t, "respond", "log")
    /\ UNCHANGED <<alive, line, entry, got, checked, mutex, cache>>

\* A read that fails makes a string of length -1, in some places after a log
\* of it, or is thrown; a write to a closed connection raises SIGPIPE; a body
\* longer than announced fails an assertion.  Nothing catches any of them.
PeerFails(t) ==
    /\ \/ at[t] \in {"ask", "asked", "rest", "deliver", "relay", "serve", "greet",
                     "tunnel", "upload"}
       \/ Free /\ at[t] \in {"reading", "reply", "forward"}
    /\ alive' = FALSE
    /\ UNCHANGED <<at, line, entry, got, checked, mutex, cache>>

-----------------------------------------------------------------------------
\* What a thread does by itself, and what needs a peer to move
Own(t) ==
    \/ Log(t) \/ Lookup(t) \/ Judge(t) \/ Remove(t) \/ Hit(t) \/ Forward(t)
    \/ LogReply(t) \/ Store(t)
WithPeer(t) ==
    \/ Read(t) \/ Dial(t) \/ Ask(t) \/ Answered(t) \/ Serve(t) \/ Reply(t) \/ Rest(t)
    \/ Relay(t) \/ Deliver(t) \/ Tunnel(t) \/ Post(t)

Next == alive /\ \E t \in Threads : Accept(t) \/ Own(t) \/ WithPeer(t) \/ PeerFails(t)

Spec == Init /\ [][Next]_vars

\* Threads run on; peers need not.
FairSpec == Spec /\ \A t \in Threads : WF_vars(alive /\ Own(t))

\* ... with peers that answer, read and hang up in the end
FairPeers == FairSpec /\ \A t \in Threads : WF_vars(alive /\ WithPeer(t))

-----------------------------------------------------------------------------
(* Properties *)

\* Type invariant.  The store never outgrows its capacity, whichever threads
\* put into it.
TypeOK ==
    /\ alive \in BOOLEAN /\ at \in [Threads -> Points]
    /\ line \in [Threads -> Lines]
    /\ entry \in [Threads -> Heads \cup {NoEntry}]
    /\ got \in [Threads -> Heads \cup {NoEntry}]
    /\ checked \subseteq Threads /\ mutex \in Threads \cup {None}
    /\ DOMAIN store \subseteq Lines /\ store \in [DOMAIN store -> Heads]
    /\ Cache!Bounded

\* A no-cache response that can be validated is sent to a client only by a
\* thread that has asked the origin about it (shouldUseCache): not by one that
\* took over another's copy, nor after an answer to another request.
NoCacheAsked ==
    \A t \in Threads :
        at[t] = "serve" /\ (entry[t].etag \/ entry[t].modified) => t \in checked

\* A thread that needs nothing of a peer comes to the point where it does, or
\* ends: no critical section but the one of a valid cached response
\* (handleCachedResponse) keeps the mutex, so nobody waits for it for ever
\* before such a response is found.
KeptOnlyByHit ==
    \A t \in Threads :
        []<>(\/ at[t] \in PeerWaits \cup {"done"} \/ ~alive
             \/ \E u \in Threads : at[u] = "relock")

\* handleRequest's "Send from cache": the thread that finds a valid response
\* sends it and ends.
HitIsServed ==
    \A t \in Threads : at[t] = "hit" ~> at[t] = "done" \/ ~alive
=============================================================================
