--------------------------- MODULE OrderDispatch ---------------------------
(***************************************************************************)
(* What the queue promises of its orders, whoever asks, answers, expires   *)
(* or leaves: an order is with one driver at a time and a driver with one  *)
(* order; it is asked of no driver that said no to it; a driver that took  *)
(* it keeps it until the order is closed or the driver gives it back; and  *)
(* a closed order stays closed.                                            *)
(***************************************************************************)
CONSTANTS Orders, Drivers, None

VARIABLES
    stage,      \* of each order
    driver,     \* the driver each order is with, or None
    said        \* the drivers that said no, with the order

vars == <<stage, driver, said>>

TypeOK ==
    /\ stage \in [Orders -> {"unplaced", "open", "asked", "engaged", "closed"}]
    /\ driver \in [Orders -> Drivers \cup {None}]
    /\ said \in SUBSET (Drivers \X Orders)

Init ==
    /\ stage = [o \in Orders |-> "unplaced"]
    /\ driver = [o \in Orders |-> None]
    /\ said = {}

-----------------------------------------------------------------------------
\* The order is with nobody, or is asked of a driver that has no other and did
\* not say no.
Offered(o) ==
    \/ /\ stage' = [stage EXCEPT ![o] = "open"]
       /\ driver' = [driver EXCEPT ![o] = None]
    \/ \E d \in Drivers :
          /\ \A other \in Orders \ {o} : driver[other] # d
          /\ <<d, o>> \notin said'
          /\ stage' = [stage EXCEPT ![o] = "asked"]
          /\ driver' = [driver EXCEPT ![o] = d]

SaysNo(o) == said' = said \cup {<<driver[o], o>>}

Place(o) ==
    /\ stage[o] = "unplaced"
    /\ Offered(o) /\ UNCHANGED said

\* A driver that does not answer loses the order without having said no.
PassOn(o) ==
    /\ stage[o] \in {"open", "asked"}
    /\ UNCHANGED said \/ (stage[o] = "asked" /\ SaysNo(o))
    /\ Offered(o)

\* A no that comes late, from a driver the order is still with or has left, is
\* noted and moves nothing.
Refuse(o) ==
    /\ stage[o] # "unplaced"
    /\ \E d \in Drivers : /\ stage[o] = "engaged" => d # driver[o]
                          /\ said' = said \cup {<<d, o>>}
    /\ UNCHANGED <<stage, driver>>

Accept(o) ==
    /\ stage[o] = "asked" /\ <<driver[o], o>> \notin said
    /\ stage' = [stage EXCEPT ![o] = "engaged"]
    /\ UNCHANGED <<driver, said>>

GiveBack(o) ==
    /\ stage[o] = "engaged"
    /\ SaysNo(o)
    /\ Offered(o)

\* Delivered, or called off: whoever was asked is done with the order.
Close(o) ==
    /\ stage[o] # "unplaced"
    /\ stage' = [stage EXCEPT ![o] = "closed"]
    /\ driver' = [driver EXCEPT ![o] = None]
    /\ \E asked \in SUBSET Drivers : said' = said \cup (asked \X {o})

Next ==
    \E o \in Orders :
        \/ Place(o) \/ PassOn(o) \/ Refuse(o) \/ Accept(o)
        \/ GiveBack(o) \/ Close(o)

Spec == Init /\ [][Next]_vars

-----------------------------------------------------------------------------
\* A driver is with one order at most, and never asked for one it said no to
\* and then given it: engaged drivers did not say no.
DriverHasOneOrder ==
    \A o, other \in Orders :
        driver[o] # None /\ driver[o] = driver[other] => o = other

EngagedDidNotRefuse ==
    \A o \in Orders : stage[o] = "engaged" => <<driver[o], o>> \notin said
=============================================================================
