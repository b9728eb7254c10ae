------------------------------- MODULE MCLive -------------------------------
(* Small instances of Live, with Presence, for TLC: see hosting.cfg.  Three in *)
(* a run: sessions and the sweep; two broadcasts with a viewer, where presence *)
(* is the host's sockets and grace timers; one broadcast over Cloudflare that  *)
(* is published twice.  No symmetry is declared, since the run checks liveness *)
(* properties.                                                                 *)
EXTENDS Live

MCLimits == {
    [sessions |-> 2, timers |-> 2, crashes |-> 1,
     broadcasts |-> 0, views |-> 0, sfu |-> 0],
    [sessions |-> 0, timers |-> 1, crashes |-> 1,
     broadcasts |-> 2, views |-> 1, sfu |-> 0],
    [sessions |-> 0, timers |-> 0, crashes |-> 1,
     broadcasts |-> 1, views |-> 1, sfu |-> 2]}

\* hosting_two_starts.cfg: nothing but broadcasts.
MCStarts == {
    [sessions |-> 0, timers |-> 0, crashes |-> 0,
     broadcasts |-> 3, views |-> 0, sfu |-> 0]}

=============================================================================
