------------------------- MODULE MCOfflineReencrypt -------------------------
(* Small instances of OfflineReencrypt for TLC.                            *)
EXTENDS OfflineReencrypt

TheJob(m, r, d) == [mode |-> m, reduce |-> r, detached |-> d]
MCJobs == {TheJob("reencrypt", 0, FALSE), TheJob("reencrypt", 1, FALSE),
           TheJob("encrypt", 1, FALSE), TheJob("decrypt", 0, FALSE)}
MCShrink == {TheJob("reencrypt", 1, FALSE)}
MCDetached == {TheJob("encrypt", 0, TRUE)}
=============================================================================
