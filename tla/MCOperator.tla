----------------------------- MODULE MCOperator -----------------------------
(***************************************************************************)
(* Small instances of Operator.  Each .cfg picks the handles, the routes    *)
(* and one of the message sets below, which hold the cases that differ:     *)
(* one or two recipients, cc, a note to self, files, a monitor, a retry.    *)
(***************************************************************************)
EXTENDS Operator, TLC

CONSTANTS alice, bob, e1, e2, f1, f2, acme, hub

\* Two agents of two owners.
MCGlobOf == (alice :> acme) @@ (bob :> hub)

\* Two agents of one owner.
MCGlobOf1 == (alice :> acme) @@ (bob :> acme)

Msg(id, to, cc, parts, body, monitor) ==
  [id |-> id, to |-> to, cc |-> cc, parts |-> parts, body |-> body, monitor |-> monitor]

\* Trust: to the other, and to oneself with the other in cc.
TrustMessages == {Msg(e1, {bob}, {}, <<>>, 1, FALSE), Msg(e1, {alice}, {bob}, <<>>, 1, FALSE)}

\* Files: one file, two files, the same file on another id, one file twice; and an id
\* used again with one more recipient or without its files.
FileMessages == {Msg(e1, {bob}, {}, <<f1>>, 1, FALSE), Msg(e2, {bob}, {}, <<f2, f1>>, 1, FALSE),
                 Msg(e2, {alice}, {}, <<f2, f2>>, 1, FALSE),
                 Msg(e1, {alice, bob}, {}, <<f1>>, 1, FALSE),
                 Msg(e2, {alice}, {alice, bob}, <<>>, 1, FALSE)}

\* Delivery: an id used again with one more recipient, a recipient who is both to and cc.
DeliveryMessages == {Msg(e1, {bob}, {}, <<>>, 1, TRUE), Msg(e1, {alice, bob}, {}, <<>>, 1, TRUE),
                     Msg(e2, {alice}, {alice, bob}, <<>>, 1, FALSE)}

=============================================================================
