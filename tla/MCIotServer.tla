---------------------------- MODULE MCIotServer ----------------------------
(***************************************************************************)
(* The server on the core of the stack or on one of its own, with one      *)
(* worker or two.                                                          *)
(***************************************************************************)
EXTENDS IotServer

CONSTANTS server, w1, w2, job, c0, c1, c2, c3

MCConf(c, apps, q, u, closes) ==
    [apps |-> apps, core |-> server :> c @@ w1 :> c2 @@ w2 :> c3 @@ job :> c,
     query |-> q, update |-> u, fin |-> closes]

(* The server on the core of the stack, with one worker: it may get two    *)
(* updates while a query waits; the client may end the connection after a  *)
(* query and an update; four queries may fill its buffer while it has no   *)
(* mbuf.  The server on a core of its own: with requests of both kinds,    *)
(* with a worker whose buffer and whose events fill up, or with two        *)
(* workers, one of which may be full when the third update comes.  An      *)
(* application whose loop ends, on either core.                            *)
MCConfigs ==
    {MCConf(c0, <<server, w1>>, 1, 2, FALSE), MCConf(c0, <<server, w1>>, 1, 1, TRUE),
     MCConf(c0, <<server, w1>>, 4, 0, FALSE),
     MCConf(c1, <<server, w1>>, 1, 1, FALSE), MCConf(c1, <<server, w1>>, 0, 3, FALSE),
     MCConf(c1, <<server, w1, w2>>, 0, 3, FALSE),
     MCConf(c0, <<job>>, 0, 0, TRUE), MCConf(c1, <<job>>, 0, 0, TRUE)}
=============================================================================
