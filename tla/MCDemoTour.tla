----------------------------- MODULE MCDemoTour -----------------------------
(* Small instances of the hosted system for TLC: trips and their bounds. *)
EXTENDS DemoTour, TLC

CONSTANTS c1, c2

\* Two clients undo single transactions, with one fault, or cohorts.
Pairs == [callers |-> Callers, modes |-> {"clean_only"}, reads |-> FALSE, apps |-> 2, writes |-> 1,
          calls |-> 2, cohort |-> 2, faults |-> 0]
Twice == [Pairs EXCEPT !.cohort = 1, !.faults = 1]

\* One client repeats its calls, or undoes cohorts, with one fault.
Repeated == [Twice EXCEPT !.callers = {c1}, !.calls = 3]
Cohorts == [Pairs EXCEPT !.callers = {c1}, !.faults = 1]

\* All modes with larger transactions; and reads.
Larger == [Twice EXCEPT !.callers = {c1}, !.modes = {"clean_only", "cascade", "targeted"},
                        !.writes = 2, !.faults = 0]
Readers == [Larger EXCEPT !.modes = {"clean_only"}, !.writes = 1, !.reads = TRUE]

\* The walkthrough makes the calls; or there are none.
Toured == [Twice EXCEPT !.callers = {c1}]
Quiet == [Toured EXCEPT !.apps = 0, !.calls = 0, !.faults = 0]

MCCases == {Pairs, Twice, Repeated, Cohorts, Larger, Readers, Toured, Quiet}

NoTrip(c) == [case |-> c, kinds |-> {}, others |-> {}, tours |-> 0, writes |-> 0, commands |-> 0,
              reboots |-> 0]

MCTrips == {
    NoTrip(Pairs), NoTrip(Twice), NoTrip(Repeated), NoTrip(Cohorts), NoTrip(Larger),
    NoTrip(Readers),
    \* either walkthrough, with a reboot of the orchestrator and another session
    [NoTrip(Toured) EXCEPT !.kinds = {"tui", "up"}, !.tours = 1, !.writes = 1, !.reboots = 1],
    \* a walkthrough after one that was left anywhere
    [NoTrip(Toured) EXCEPT !.kinds = {"tui"}, !.tours = 2],
    \* storage commands and cancellations
    [NoTrip(Quiet) EXCEPT !.others = Clients, !.commands = 2, !.reboots = 1],
    [NoTrip(Quiet) EXCEPT !.others = Clients, !.commands = 3] }

MCJobs == 1..3
=============================================================================
