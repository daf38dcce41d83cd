-------------------------- MODULE MCClientService --------------------------
EXTENDS ClientService

\* Two writers of one record, and the service by itself.
MCHosts == {{"run", "backup"}, {"service"}}

\* Delays of 0 to 2 seconds; of 0 to 4, of which a Duration holds 2; and
\* arguments that do not resolve.
Good == [interval |-> <<1, "s">>, jitter |-> 100, default_chunking |-> FALSE, utf8 |-> TRUE]
MCLaunchArgs ==
    {Good, [Good EXCEPT !.interval = <<1, "m">>, !.default_chunking = TRUE],
     [Good EXCEPT !.utf8 = FALSE, !.jitter = 0]}
    \cup {[Good EXCEPT !.jitter = 101], [Good EXCEPT !.interval = <<1, "h">>],
          [Good EXCEPT !.interval = <<0, "">>], [Good EXCEPT !.interval = <<>>]}

File == [readable |-> TRUE, folders |-> 1, committed |-> TRUE, size |-> <<2, "">>]
MCConfigs == {File, [File EXCEPT !.committed = FALSE]}
MCLimits == [min |-> 0 .. 1, target |-> 1 .. 4, max |-> 4 .. 16]
=============================================================================
