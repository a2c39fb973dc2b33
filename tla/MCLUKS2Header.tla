--------------------------- MODULE MCLUKS2Header ----------------------------
(* Small instances of LUKS2Header for TLC.                                 *)
EXTENDS LUKS2Header

CONSTANTS c1, c2, c3, u1, u2, u3

MCCtx == {c1, c2, c3}
MCUpdate == {u1, u2, u3}

AWorld(ctxs, updates, crash, ioerr, damage, setuuid, reload) ==
    [ctxs |-> ctxs, updates |-> updates, reload |-> reload, setuuid |-> setuuid,
     crash |-> crash, ioerr |-> ioerr, damage |-> damage]

(* Two contexts with three changes and two crashes, three contexts with  *)
(* two changes and one crash, and a damaged copy, a failed read or write   *)
(* and changes of the uuid.                                                *)
MCWorlds ==
    {AWorld({c1, c2}, MCUpdate, 2, 0, 0, FALSE, FALSE),
     AWorld(MCCtx, {u1, u2}, 1, 0, 0, FALSE, FALSE),
     AWorld({c1, c2}, {u1, u2}, 0, 1, 1, TRUE, FALSE)}

(* Changes of the uuid by a context with an old header.                    *)
UuidWorlds == {AWorld({c1, c2}, {u1, u2}, 0, 0, 0, TRUE, FALSE)}

(* NoLostUpdate without its exceptions.                                    *)
UpdatesKept == \A c \in Ctx : pc[c] = "write1" => acked \subseteq hdr[c].body

(* Contexts that load again after a write.                                 *)
SharedWorlds == {AWorld(MCCtx, {u1, u2}, 1, 0, 0, FALSE, TRUE)}
=============================================================================
