-------------------------- MODULE MCPropertySearch -------------------------
(* Small searches: six cards that the filters tell apart, pages of at most  *)
(* two of them, a second page where a scraper reads one.  Two cards share   *)
(* the identifier 1 and their link, two others only the identifier 2.       *)
EXTENDS PropertySearch

Card(id, type, price, rooms, locality, places) ==
    [id |-> id, href |-> id, junk |-> FALSE, type |-> type, kinds |-> {"casa"}, price |-> price,
     currency |-> "USD", rooms |-> rooms, locality |-> locality, places |-> places,
     words |-> {"casa"}]

MCCards == {
    Card(1, "house", 1, 3, "gonnet", {"gonnet", "la plata"}),
    Card(2, "house", 3, 3, "gonnet", {"gonnet"}),
    [Card(2, "house", 1, 1, None, {"manuel b gonnet"}) EXCEPT !.href = 20],
    Card(1, "house", None, None, "pilar", {"pilar", "gonnet", "buenos aires"}),
    [Card(3, "ph", 1, 3, None, {"city bell"}) EXCEPT !.currency = "ARS", !.kinds = {"ph"}],
    [Card(4, None, 1, 3, "gonnet", {}) EXCEPT !.kinds = {"departamento"}]}

Filters ==
    {q \in [type : {"house"}, location : {None, "gonnet"}, custom : {None, "la plata"},
            price : {None, [currency |-> "USD", min |-> None, max |-> 2]},
            rooms : {None, 2}, query : {None}] : q.location = None \/ q.custom = None}

MCRequests ==
    [filters : Filters,
     portals : {<<"argenprop">>, <<"century21", "remax">>,
                <<"zonaprop">>, <<"zonaprop", "argenprop", "zonaprop">>,
                <<"mercadolibre", "remax", "argenprop">>}]

Page(n) == UNION {[1..k -> MCCards] : k \in 0..n}

Failures == {[kind |-> k] : k \in {"disabled", "crashed", "cancelled"}}
            \cup {[kind |-> "refused", code |-> c] : c \in {"bot_wall", "auth_required", "parse"}}

PagesOf(portal, n) ==
    CASE portal = "remax" -> {<<p>> : p \in Page(1)} \cup {<<p, q>> : p, q \in Page(n - 1)}
      [] portal = "century21" -> {<<p>> : p \in Page(n)} \cup {<<p, q>> : p, q \in Page(n - 1)}
      [] OTHER -> {<<p>> : p \in Page(n)}

Reads(portal, n) ==
    {[kind |-> "read", pages |-> p, fellBack |-> b] :
        p \in PagesOf(portal, n), b \in IF portal = "zonaprop" /\ n > 1 THEN BOOLEAN ELSE {FALSE}}

MCCurated == {Listing(c, "house", c.locality, c.rooms) : c \in {d \in MCCards : d.href <= 2}}

\* More of them than FixtureCap.
Fixtures == {[kind |-> "fixtures", items |-> s] : s \in [1..2 -> MCCurated]}

\* A setting disables a portal, and so all that is asked of it.
MCOutcomes(r, portal) ==
    IF Len(r.portals) = 3
    THEN Reads(portal, 1) \cup
         (IF IsInjective(r.portals) THEN Failures
          ELSE {o \in Failures : o.kind = "disabled" => portal = "argenprop"})
    ELSE Failures \cup Reads(portal, 2) \cup (IF portal = "argenprop" THEN Fixtures ELSE {})
=============================================================================
