--------------------------- MODULE ExchangeServer ---------------------------
(***************************************************************************)
(* The threads of the stock exchange: runServer starts one per client, all *)
(* of them share one pqxx connection, and db_mutex is held by some of the  *)
(* functions that use it.  What the requests do to the tables is           *)
(* MatchingEngine's matter; here is who is inside a transaction when.      *)
(***************************************************************************)
EXTENDS Integers, FiniteSets

CONSTANTS
    Clients,      \* one connection, one request and one thread each
    None,         \* no thread
    MaxChildren   \* bound: children of one request

ASSUME ServerAssumption ==
    None \notin Clients /\ MaxChildren \in Nat

VARIABLES
    fate,      \* "runs", or what ended the process; run.sh starts it once
    at,        \* where the thread of a client is
    kind,      \* the request it parsed
    left,      \* children of the request still to come
    mutex,     \* the thread that holds db_mutex
    guest,     \* the transaction registered with the connection
    refused    \* clients with a child that was refused for want of the connection

serverVars == <<fate, at, kind, left, mutex, guest, refused>>

Points == {"away", "reading", "next", "check", "register", "commit", "account", "body",
           "locked", "match", "trade", "traded", "reply", "gone"}
Fates == {"runs", "usage_error", "exception", "SIGPIPE", "exit"}
Kinds == {"create", "transactions", "other"}

\* The thread has a pqxx::work: between its construction and its end
InWork(c) == at[c] \in 
    {"commit", "account", "body", "locked", "match", "trade", "traded"}

ServerInit ==
    /\ fate = "runs"
    /\ at = [c \in Clients |-> "away"]
    /\ kind = [c \in Clients |-> "other"]
    /\ left = [c \in Clients |-> 0]
    /\ mutex = None /\ guest = None
    /\ refused = {}

Goto(c, point) == at' = [at EXCEPT ![c] = point]
Lock(c) == mutex = None /\ mutex' = c
Unlock == mutex' = None
\* libpqxx clears the registration only for the transaction that is registered.
EndWork(c) == guest' = IF guest = c THEN None ELSE guest
\* The whole process ends, and with it every thread wherever it is.
Dies(cause) == fate' = cause /\ UNCHANGED <<at, kind, left, mutex, guest, refused>>

-----------------------------------------------------------------------------
(* server.cpp *)

\* A client without a thread is closed at once.
runServer(c) ==
    /\ at[c] = "away" /\ (Goto(c, "reading") \/ Goto(c, "gone"))
    /\ UNCHANGED <<fate, kind, left, mutex, guest, refused>>

\* accept() fails
AcceptFails == Dies("exit")

\* The bytes are the client's to send, and read() waits for them without a limit.
\* "other" is a text that is no request: it is answered without the database.
\* A failed read closes the connection without an answer.
Receive(c) ==
    /\ at[c] = "reading"
    /\ \/ \E k \in Kinds, n \in 0..MaxChildren :
            /\ kind' = [kind EXCEPT ![c] = k]
            /\ left' = [left EXCEPT ![c] = n]
            /\ Goto(c, CASE k = "create" -> "next" [] k = "transactions" -> "check"
                         [] k = "other" -> "reply")
       \/ Goto(c, "gone") /\ UNCHANGED <<kind, left>>
    /\ UNCHANGED <<fate, mutex, guest, refused>>

\* Nothing ignores the signal raised by a send() to a client that hung up.
Respond(c) ==
    /\ at[c] = "reply"
    /\ \/ Goto(c, "gone") /\ UNCHANGED <<fate, kind, left, mutex, guest, refused>>
       \/ Dies("SIGPIPE")

-----------------------------------------------------------------------------
(* The constructor of W: two threads may both find the connection free *)

Construct(c) ==
    /\ at[c] = "check" /\ guest = None /\ Goto(c, "register")
    /\ UNCHANGED <<fate, kind, left, mutex, guest, refused>>

Register(c) ==
    /\ at[c] = "register" /\ guest' = c
    /\ Goto(c, IF kind[c] = "create" THEN "commit" ELSE "account")
    /\ UNCHANGED <<fate, kind, left, mutex, refused>>

\* handle_creation catches the usage_error and answers with it; the
\* lock_guard unlocks.
CreateRefused(c) ==
    /\ at[c] = "check" /\ guest # None /\ kind[c] = "create"
    /\ Unlock /\ Goto(c, "next")
    /\ refused' = refused \cup {c}
    /\ UNCHANGED <<fate, kind, left, guest>>

\* In handle_transactions the constructor stands before the try block, and
\* nothing above it in the thread catches.
Terminate(c) ==
    /\ at[c] = "check" /\ guest # None /\ kind[c] = "transactions"
    /\ Dies("usage_error")

-----------------------------------------------------------------------------
(* <create>: insertAccount and insertSymbol hold db_mutex for all of W *)

CreateUnlocked(c) ==    \* no lock_guard
    /\ at[c] = "next" /\ left[c] > 0
    /\ left' = [left EXCEPT ![c] = @ - 1] /\ Goto(c, "check")
    /\ UNCHANGED <<fate, kind, mutex, guest, refused>>
CreatePastEnd(c) ==    \* no test for the end of the children
    /\ at[c] = "next"
    /\ Lock(c)
    /\ left' = [left EXCEPT ![c] = @ - 1] /\ Goto(c, "check")
    /\ UNCHANGED <<fate, kind, guest, refused>>
CreateChild(c) ==
    /\ at[c] = "next" /\ left[c] > 0
    /\ Lock(c)
    /\ left' = [left EXCEPT ![c] = @ - 1] /\ Goto(c, "check")
    /\ UNCHANGED <<fate, kind, guest, refused>>

\* A child without "id" or "sym", or with a text that is no number: the
\* attributes are read before the try block.
CreateThrows(c) == at[c] = "next" /\ left[c] > 0 /\ Dies("exception")

\* ... whether the INSERT succeeds or throws
KeepsMutex(c) ==    \* returns without unlocking
    /\ at[c] = "commit"
    /\ EndWork(c) /\ Goto(c, "next")
    /\ UNCHANGED <<fate, kind, left, mutex, refused>>
CreateDone(c) ==
    /\ at[c] = "commit"
    /\ EndWork(c) /\ Unlock /\ Goto(c, "next")
    /\ UNCHANGED <<fate, kind, left, refused>>

CreateEnds(c) ==
    /\ at[c] = "next" /\ left[c] = 0 /\ Goto(c, "reply")
    /\ UNCHANGED <<fate, kind, left, mutex, guest, refused>>

-----------------------------------------------------------------------------
(* <transactions>: W is open from the first statement to the last, db_mutex *)
(* is held function by function                                             *)

\* The account is looked up before the try block: an unknown one aborts W.
Account(c) ==
    /\ at[c] = "account"
    /\ \/ Goto(c, "body") /\ UNCHANGED guest
       \/ EndWork(c) /\ Goto(c, "reply")
    /\ UNCHANGED <<fate, kind, left, mutex, refused>>

\* No "id", read before W is opened, or a look-up that fails
TransactionsThrow(c) ==
    /\ at[c] = "account" \/ (at[c] = "check" /\ kind[c] = "transactions")
    /\ Dies("exception")

Child(c) ==
    /\ at[c] = "body" /\ left[c] > 0
    /\ Lock(c)
    /\ left' = [left EXCEPT ![c] = @ - 1] /\ Goto(c, "locked")
    /\ UNCHANGED <<fate, kind, guest, refused>>

\* An <order> that insertOrder accepts is counted, reported and matched;
\* everything else is done.
ChildDone(c) ==
    /\ at[c] = "locked"
    /\ Unlock
    /\ Goto(c, "body") \/ Goto(c, "match")
    /\ UNCHANGED <<fate, kind, left, guest, refused>>

\* match_orders selects without the mutex; execute_trade and
\* update_order_status take it.  One trade stands for any number of them.
Match(c) ==
    /\ at[c] = "match" /\ (Goto(c, "body") \/ Goto(c, "trade"))
    /\ UNCHANGED <<fate, kind, left, mutex, guest, refused>>

LockTrade(c) ==
    /\ at[c] = "trade" /\ Lock(c) /\ Goto(c, "traded")
    /\ UNCHANGED <<fate, kind, left, guest, refused>>

TradeDone(c) ==
    /\ at[c] = "traded" /\ Unlock /\ Goto(c, "body")
    /\ UNCHANGED <<fate, kind, left, guest, refused>>

\* W.commit(), or W.abort() after an error
LeavesWork(c) ==    \* a return without commit or abort that keeps W
    /\ at[c] = "body" /\ left[c] = 0
    /\ Goto(c, "reply")
    /\ UNCHANGED <<fate, kind, left, mutex, guest, refused>>
Finish(c) ==
    /\ at[c] = "body"
    /\ EndWork(c) /\ Goto(c, "reply")
    /\ UNCHANGED <<fate, kind, left, mutex, refused>>

-----------------------------------------------------------------------------
handle_creation(c) ==
    CreateChild(c) \/ CreateThrows(c) \/ CreateRefused(c) \/ CreateDone(c) \/ CreateEnds(c)
handle_transactions(c) ==
    \/ TransactionsThrow(c) \/ Terminate(c) \/ Account(c) \/ Child(c) \/ ChildDone(c) \/ Match(c)
    \/ LockTrade(c) \/ TradeDone(c) \/ Finish(c)
\* What a thread does once it has its request
Serve(c) ==
    \/ Construct(c) \/ Register(c) \/ Respond(c)
    \/ handle_creation(c) \/ handle_transactions(c)
handleClient(c) == Receive(c) \/ Serve(c)

ServerNext ==
    /\ fate = "runs"
    /\ AcceptFails \/ \E c \in Clients : runServer(c) \/ handleClient(c)

ServerSpec == ServerInit /\ [][ServerNext]_serverVars

\* Threads run on; a mutex that is free again and again may pass a thread by
\* only as often as others take it, which is bounded.  Clients need not come,
\* and a client that came need not send anything.
FairServerSpec ==
    ServerSpec /\ \A c \in Clients : WF_serverVars(fate = "runs" /\ Serve(c))

-----------------------------------------------------------------------------
(* Properties *)

\* Type invariant; left never passes below the last child.
ServerTypeOK ==
    /\ fate \in Fates
    /\ at \in [Clients -> Points] /\ kind \in [Clients -> Kinds]
    /\ left \in [Clients -> 0..MaxChildren]
    /\ mutex \in Clients \cup {None} /\ guest \in Clients \cup {None}
    /\ refused \in SUBSET Clients

\* Two threads in a transaction at once: one of them at least serves a
\* <transactions>.  The creates keep out of each other's way.
CreatesExclusive ==
    \A c, d \in Clients : c # d /\ InWork(c) /\ InWork(d) =>
        kind[c] = "transactions" \/ kind[d] = "transactions"

\* The connection never stays taken by a thread that has left its
\* transaction, which would refuse every later request.
NoLeakedWork == guest # None => InWork(guest)

\* A request finds the connection taken, and is refused or ends the process,
\* only when another request is being served and one of the two is a
\* <transactions>: creates do not get in each other's way.
TakenNeedsTransactions ==
    refused # {} \/ fate = "usage_error" =>
        \E c, d \in Clients :
            c # d /\ kind[c] = "transactions" /\ kind[d] \in {"create", "transactions"}

\* Whoever has sent a request gets an answer, or the server dies: nobody waits
\* for db_mutex for ever, not behind a client that stays silent either.
ClientServed ==
    \A c \in Clients :
        at[c] \notin {"away", "reading"} ~> (at[c] = "gone" \/ fate # "runs")

=============================================================================
