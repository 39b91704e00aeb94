----------------------------- MODULE Interning -----------------------------
(***************************************************************************)
(* What the selector registry is for (objc-sel.mm:26-29): "there is        *)
(* exactly one address (selector) associated with a given string".  sel is *)
(* the address each name has, answer what a thread is being told.  A name  *)
(* that has an address keeps it.                                           *)
(***************************************************************************)
CONSTANTS Threads, Names, Selectors, NULL

VARIABLES sel, answer

Init ==
    /\ sel \in [Names -> Selectors \cup {NULL}]
    /\ answer = [t \in Threads |-> NULL]

Register(t, n) ==
    \E s \in Selectors :
        /\ answer' = [answer EXCEPT ![t] = s]
        /\ s.name = n /\ sel[n] \in {s, NULL}
        /\ sel' = [sel EXCEPT ![n] = s]

IsMapped(t, n) ==
    /\ answer' = [answer EXCEPT ![t] = [name |-> n, mapped |-> sel[n] # NULL]]
    /\ UNCHANGED sel

Return(t) ==
    /\ answer' = [answer EXCEPT ![t] = NULL]
    /\ UNCHANGED sel

Next ==
    \E t \in Threads :
        Return(t) \/ \E n \in Names : Register(t, n) \/ IsMapped(t, n)

Spec == Init /\ [][Next]_<<sel, answer>>

=============================================================================
