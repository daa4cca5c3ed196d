------------------------------ MODULE SewEvents ------------------------------
(***************************************************************************)
(* The events the Python clients send: an action and the arguments it uses, *)
(* the rest at rest.                                                        *)
(***************************************************************************)
EXTENDS SewTypes

NoWf == -1

OptWf == Workflows \cup {NoWf}

NoCall == [ action |-> "none", wf |-> NoWf, to |-> NoAddr, amount |-> 0,
            isRelease |-> FALSE ]

On(action, w) == [NoCall EXCEPT !.action = action, !.wf = w]

Resolve(w, isRelease) == [On("execute_resolution", w) EXCEPT !.isRelease = isRelease]

=============================================================================
