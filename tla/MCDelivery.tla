----------------------------- MODULE MCDelivery ------------------------------
(***************************************************************************)
(* Small instances of Delivery for the model checker.                      *)
(***************************************************************************)
EXTENDS Delivery

Change(photos, terms, signature) ==
    [photos |-> photos, terms |-> terms, signature |-> signature]

\* Nothing but a status, each part alone, and all of them.
PartsAndWhole ==
    {Change(FALSE, FALSE, "none"), Change(TRUE, FALSE, "none"), Change(FALSE, TRUE, "none"),
     Change(FALSE, FALSE, "drawing"), Change(TRUE, TRUE, "drawing")}
=============================================================================
