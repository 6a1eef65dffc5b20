-------------------------------- MODULE MCSync --------------------------------
(***************************************************************************)
(* Instances of ReferenceSync for TLC.  Database d1 has foreign keys and   *)
(* two rows with one year and tariff; d2 has none, and lacks one table; in *)
(* d3 a column is missing that the file of the year amounts has.           *)
(***************************************************************************)
EXTENDS SyncProps

CONSTANTS s1, s2, d1, d2, d3

Key      == [key |-> TRUE, identity |-> FALSE, required |-> TRUE, default |-> NULL]
Counter  == [key |-> TRUE, identity |-> TRUE, required |-> TRUE, default |-> NULL]
Plain    == [key |-> FALSE, identity |-> FALSE, required |-> FALSE, default |-> NULL]
Needed   == [key |-> FALSE, identity |-> FALSE, required |-> TRUE, default |-> NULL]
Flag     == [key |-> FALSE, identity |-> FALSE, required |-> TRUE, default |-> 0]

Tariff  == ("id" :> Key) @@ ("Rate" :> Plain)
Local   == ("id" :> Counter) @@ ("Rate" :> Needed) @@ ("IsDeleted" :> Flag)
Year    == ("id" :> Counter) @@ ("Year" :> Needed) @@ ("Amount" :> Plain) @@ ("IsDeleted" :> Flag)
             @@ ("TransportTariffId" :> Plain)
YearLocal == ("id" :> Key) @@ ("Amount" :> Plain) @@ ("TransportTariffLocalId" :> Plain)

Full == [TransportTariffs |-> Tariff, TransportTariffLocals |-> Local,
         TransportYearAmounts |-> Year, TransportYearAmountLocals |-> YearLocal]

MCSchemas == [db \in {d1, d2, d3} |->
    CASE db = d1 -> Full
      [] db = d2 -> [Full EXCEPT !.TransportTariffLocals = <<>>]
      [] db = d3 -> [Full EXCEPT !.TransportYearAmounts = Restrict(@, DOMAIN @ \ {"IsDeleted"})]]

T(id, rate)   == ("id" :> id) @@ ("Rate" :> rate)
Y(year, amount, tariff) ==
    ("Year" :> year) @@ ("Amount" :> amount) @@ ("IsDeleted" :> 0) @@ ("TransportTariffId" :> tariff)
L(id, amount, ref) == ("id" :> id) @@ ("Amount" :> amount) @@ ("TransportTariffLocalId" :> ref)

MCInitial == [db \in {d1, d2, d3} |->
    [TransportTariffs |-> IF db = d1 THEN <<T(1, 0)>> ELSE <<>>,
     TransportTariffLocals |-> IF db = d2 THEN <<>> ELSE <<T(1, 0) @@ ("IsDeleted" :> 0)>>,
     TransportYearAmounts |-> IF db = d1 THEN <<("id" :> 5) @@ Y(1404, 0, 1), ("id" :> 6) @@ Y(1404, 1, 1)>> ELSE <<>>,
     TransportYearAmountLocals |-> IF db = d2 THEN <<L(1, 0, NULL)>> ELSE <<>>]]

Cmd(flags, files) == [flags |-> flags, files |-> files]

MCCommands == {
    Cmd({"amounts"}, [TransportTariffs |-> <<T(2, 0), T(1, 1)>>,
                      TransportYearAmounts |-> <<Y(1404, 1, 1), Y(1404, 0, 2), Y(1404, 0, 3)>>]),
    Cmd({"amounts"}, [TransportYearAmounts |-> <<Y(1405, 1, 1), Y(1405, 2, 1), Y(1405, 1, NULL)>>]),
    Cmd({"tariffs"}, [TransportTariffs |-> <<T(1, NULL)>>, TransportTariffLocals |-> <<T(3, 1), T(2, NULL)>>,
                      TransportYearAmounts |-> <<>>]),
    Cmd({"amounts"}, [TransportTariffLocals |-> <<T(2, 1)>>,
                      TransportYearAmountLocals |-> <<L(1, 1, 2), L(2, 0, 3), L(3, NULL, NULL)>>])}

MCTargets   == <<s1, NULL, s2>>
MCDatabases == [s \in {s1, s2} |-> IF s = s1 THEN <<d1, d2>> ELSE <<d3>>]

MCOthers == {
    [db |-> d1, table |-> "TransportTariffs", at |-> 2, row |-> NULL],
    [db |-> d2, table |-> "TransportTariffs", at |-> 1, row |-> NULL],
    [db |-> d1, table |-> "TransportTariffs", at |-> 9, row |-> T(3, 0)],
    [db |-> d1, table |-> "TransportYearAmounts", at |-> 1, row |-> ("id" :> 5) @@ Y(1404, 7, 1)]}
==============================================================================
