----------------------- MODULE MCCollectiveExchange -----------------------
(***************************************************************************)
(* The setups of CollectiveExchange for TLC.                               *)
(***************************************************************************)
EXTENDS CollectiveExchange, TLC

Setup(b, devices, hybrid, synchronising, diagnostics) ==
    [batch |-> b, devices |-> devices, hybrid |-> hybrid,
     waits |-> synchronising, barriers |-> diagnostics]

\* Different numbers of samples; the controller has the fewest.
Uneven == (0 :> 1) @@ (1 :> 3) @@ (2 :> 2)

\* A controller without samples of its own, and a worker without samples.
IdleController == (0 :> 0) @@ (1 :> 2) @@ (2 :> 1)
IdleWorker     == (0 :> 1) @@ (1 :> 0) @@ (2 :> 2)

Setups == {Setup(Uneven, TRUE, TRUE, FALSE, TRUE),
           Setup(Uneven, TRUE, TRUE, TRUE, FALSE),
           Setup(Uneven, TRUE, TRUE, FALSE, FALSE),
           Setup(IdleController, TRUE, TRUE, FALSE, FALSE),
           Setup(IdleController, TRUE, FALSE, TRUE, FALSE),
           Setup(IdleWorker, TRUE, FALSE, FALSE, TRUE),
           Setup(IdleWorker, TRUE, FALSE, FALSE, FALSE),
           Setup(IdleWorker, TRUE, FALSE, TRUE, FALSE),
           Setup(IdleWorker, FALSE, FALSE, FALSE, FALSE),
           Setup(Uneven, FALSE, TRUE, FALSE, TRUE)}
=============================================================================
