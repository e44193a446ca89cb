---------------------------- MODULE MCRecovery ----------------------------
(***************************************************************************)
(* Instances of Recovery: several installations, each with the actors      *)
(* whose interplay it is about.                                            *)
(***************************************************************************)
EXTENDS Recovery, TLC

Lossless == [retain |-> 0, horizon |-> 0, archive |-> TRUE, shipping |-> TRUE,
             records |-> 5, backups |-> 3, manual |-> TRUE, crashes |-> 0]
Nobody == [twoDb |-> TRUE, keys |-> {}, traffic |-> FALSE,
           sessions |-> {}, tags |-> {}, ddls |-> 0,
           ways |-> {}, commands |-> 0, fails |-> 0]

\* Backups and retention alone, with and without interrupted commands.
Backing ==
    {[Lossless EXCEPT !.horizon = 2, !.crashes = 1],
     [Lossless EXCEPT !.retain = 1, !.crashes = 1],
     [Lossless EXCEPT !.retain = 1, !.horizon = 2, !.crashes = 1, !.backups = 4],
     [Lossless EXCEPT !.retain = 1, !.horizon = 2, !.archive = FALSE],
     [Lossless EXCEPT !.retain = 1, !.horizon = 2, !.shipping = FALSE]}

Cycles(r, b) == [Lossless EXCEPT !.records = r, !.backups = b, !.manual = FALSE]
Recover(tag) == [Nobody EXCEPT !.keys = Keys, !.sessions = {CHOOSE s \in Sessions : TRUE},
                               !.tags = {tag}, !.ddls = 1, !.commands = 2,
                               !.ways = {"newest", "named"}]
OneDb(l) == [l EXCEPT !.twoDb = FALSE]

\* The DDL log and its forwarder alone.
Logging ==
    [Cycles(7, 0) EXCEPT !.manual = TRUE] :>
        [Nobody EXCEPT !.sessions = Sessions, !.tags = {"TRUNCATE TABLE", "other"},
                       !.ddls = 3, !.fails = 1]

Recovering ==
    \* two events of one kind, which the forwarder carries to the store
       Cycles(6, 1) :> [Recover("TRUNCATE TABLE") EXCEPT !.ddls = 2, !.commands = 1,
                                                         !.ways = {"newest"}]
    \* repeated recoveries of a table and of a column
    @@ [Cycles(5, 1) EXCEPT !.crashes = 1] :> OneDb(Recover("DROP TABLE"))
    @@ Cycles(5, 1) :> OneDb(Recover("DROP COLUMN"))
    \* retention at work while a recovery runs
    @@ [Cycles(5, 2) EXCEPT !.horizon = 1] :>
           OneDb([Recover("TRUNCATE TABLE") EXCEPT !.commands = 1, !.ways = {"newest"}])
    \* without an archive
    @@ [Cycles(5, 1) EXCEPT !.archive = FALSE] :>
           OneDb([Recover("TRUNCATE TABLE") EXCEPT !.commands = 1])
    \* reads of the past
    @@ [Cycles(4, 2) EXCEPT !.manual = TRUE] :>
           [Nobody EXCEPT !.keys = Keys, !.ways = {"as-of"}, !.commands = 1]

BackingLimits == [q \in Backing |-> [Nobody EXCEPT !.traffic = TRUE]]
AllLimits == BackingLimits @@ Logging @@ Recovering
All == DOMAIN AllLimits

LoggingOnly == DOMAIN Logging

\* Both retention rules and one interrupted command, alone.
HalfPruned ==
    [Cycles(5, 4) EXCEPT !.retain = 1, !.horizon = 2, !.crashes = 1] :>
        [Nobody EXCEPT !.traffic = TRUE]
HalfPrunedOnly == DOMAIN HalfPruned
=============================================================================
