--------------------------- MODULE ChallengeTable ---------------------------
(***************************************************************************)
(* What PTP::Authenticator promises (spec 4.G, property 6): the set of     *)
(* challenges that are still live -- issued and not yet expired or         *)
(* consumed.  A response is accepted exactly when a live challenge expects *)
(* it; acceptance consumes that challenge and yields its context.  Expired *)
(* challenges simply stop being live; how and when the implementation      *)
(* deletes them is not visible here.                                       *)
(***************************************************************************)
EXTENDS Naturals

CONSTANTS
    Entries,     \* the possible pending records [resp, expire, context]
    Resps,       \* every response value a verifier may be handed
    NoContext,   \* the NULL returned by a failed Verify
    MaxTime      \* last clock value explored

VARIABLES
    live,        \* set of live challenges
    clock,       \* GetTime()
    verdict      \* [resp, context] of the last Verify call

vars == <<live, clock, verdict>>

\* The challenges of S that are still live at time t.
LiveAt(S, t) == {e \in S : e.expire > t}

Init ==
    /\ live = {}
    /\ clock = 0
    /\ verdict = [resp |-> NoContext, context |-> NoContext]

Issue ==
    \E e \in Entries :
        /\ e.resp \notin {x.resp : x \in live}
        /\ live' = LiveAt(live \cup {e}, clock)
        /\ UNCHANGED <<clock, verdict>>

Verify(r) ==
    IF \E e \in live : e.resp = r
    THEN \E e \in live :
            /\ e.resp = r
            /\ live' = live \ {e}
            /\ verdict' = [resp |-> r, context |-> e.context]
            /\ UNCHANGED clock
    ELSE /\ verdict' = [resp |-> r, context |-> NoContext]
         /\ UNCHANGED <<live, clock>>

Advance ==
    /\ clock < MaxTime
    /\ clock' = clock + 1
    /\ live' = LiveAt(live, clock')
    /\ UNCHANGED verdict

Next == Issue \/ Advance \/ \E r \in Resps : Verify(r)

Spec == Init /\ [][Next]_vars

=============================================================================
