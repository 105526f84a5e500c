-------------------------- MODULE RegistryService ---------------------------
(***************************************************************************)
(* What the hook daemon's registry promises to the runtimes that push into *)
(* it and to its readers, without threads, generations and the file: one   *)
(* request at a time is asked, carried out and answered; an entry leaves   *)
(* only when its holder asked for it, after its TTL, or because the daemon *)
(* went down, and a daemon that comes up starts with nothing but fallbacks.*)
(***************************************************************************)
EXTENDS RegistryContract

VARIABLES
    request,   \* what the daemon was asked and has not answered
    done,      \* the push is stored and not yet answered
    up         \* the daemon is running

NoRequest == [key |-> None, entry |-> None, by |-> None]

service == <<reg, request, done, up>>

AskPush(k, c, i) ==
    /\ up /\ request = NoRequest
    /\ request' = [NoRequest EXCEPT !.key = k, !.entry = Live(c, i)]
    /\ UNCHANGED <<reg, done, up>>

AskRelease(k, i) ==
    /\ up /\ request = NoRequest
    /\ request' = [NoRequest EXCEPT !.key = k, !.by = i]
    /\ UNCHANGED <<reg, done, up>>

ServePush(c, i) ==
    /\ up /\ ~done
    /\ request.entry = Live(c, i)
    /\ Grant(request.key, c, i)
    /\ done' = TRUE
    /\ UNCHANGED <<request, up>>

\* A push is answered after it is stored.
AnswerPush ==
    /\ done
    /\ request' = NoRequest /\ done' = FALSE
    /\ UNCHANGED <<reg, up>>

\* Whoever does not hold the entry any more is answered and removes nothing.
ServeRelease ==
    /\ up
    /\ request.by \in Instances
    /\ \/ Release(request.key, request.by)
       \/ /\ reg[request.key] # None => reg[request.key].by # request.by
          /\ UNCHANGED reg
    /\ request' = NoRequest
    /\ UNCHANGED <<done, up>>

\* Time and the snapshot, which no request waits for.
Background ==
    /\ \/ \E k \in Keys : Age(k)
       \/ Reclaim
       \/ FallBack
    /\ UNCHANGED <<request, done, up>>

GoDown ==
    /\ up' = FALSE
    /\ reg' = [k \in Keys |-> None]
    /\ request' = NoRequest /\ done' = FALSE

ComeUp ==
    /\ ~up /\ up' = TRUE
    /\ FallBack
    /\ UNCHANGED <<request, done>>

Init == reg = [k \in Keys |-> None] /\ request = NoRequest /\ done = FALSE /\ up = TRUE

Next ==
    \/ \E k \in Keys, c \in Contents, i \in Instances : AskPush(k, c, i)
    \/ \E k \in Keys, i \in Instances : AskRelease(k, i)
    \/ \E c \in Contents, i \in Instances : ServePush(c, i)
    \/ AnswerPush
    \/ ServeRelease
    \/ Background
    \/ GoDown
    \/ ComeUp

Spec == Init /\ [][Next]_service
=============================================================================
