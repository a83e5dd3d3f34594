--------------------------- MODULE MCGatewayTransfer ---------------------------
(* Two old templates of one listing that refer to each other, one of them also to
   a template of another profile, and dictionaries along a chain of includes. *)
EXTENDS GatewayTransfer, TLC

CONSTANTS t1, t2, foreign, l, a, b, e

MCListingOf == [t \in Template |-> l]
MCRefs == t1 :> {t2} @@ t2 :> {t1, foreign}
MCUses == t1 :> {a} @@ t2 :> {}

MCOldDict ==
    {[name |-> a, upper |-> FALSE, inf |-> "own", includes |-> {b}],
     [name |-> a, upper |-> FALSE, inf |-> "common", includes |-> {}],
     [name |-> b, upper |-> FALSE, inf |-> "other", includes |-> {a, e}],
     [name |-> e, upper |-> TRUE,  inf |-> "other", includes |-> {}]}

MCArchives ==
    {<< <<"text">>, <<"text">> >>, << <<"text">>, <<"blank", "text">> >>,
     << <<"blank", "text">> >>}

=============================================================================
