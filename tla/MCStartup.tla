----------------------------- MODULE MCStartup -----------------------------
(***************************************************************************)
(* Machines and command lines for Startup: up to three lcores, main lcores *)
(* that are not the first one, NICs with too few TX queues, boards with    *)
(* and without the ports that the options name.                            *)
(***************************************************************************)
EXTENDS Startup

Machine(app, lcores, main, tx, ports) ==
  [app |-> app, lcores |-> lcores, main_lcore |-> main, max_tx_queues |-> tx,
   nb_ports |-> ports]

MCMachines ==
  {Machine("mica", L, Max(L), tx, 1) :
     L \in {{0}, {0, 1}, {0, 1, 2}}, tx \in {0, 2, 3}}
  \cup {Machine("mica", {0}, 0, 2, 0)}
  \cup {Machine("nf-chain", L, 0, 3, n) : L \in {{0}, {0, 1}, {0, 1, 2}}, n \in {1, 2}}
  \cup {Machine("nf-chain", {0, 1}, 1, 1, 2), Machine("nf-chain", {2, 3}, 3, 2, 4)}
  \cup {Machine("locality", L, Min(L), 1, n) :
          L \in {{0}, {0, 1}, {1, 2, 3}}, n \in 0 .. 3}

MCMasks == {{}, {0}, {1}, {0, 1}, {0, 1, 2}, {0, 1, 2, 3}}

MCConfigs ==
  { <<>>,
    << LcoreParam(0, 0, 0) >>,
    << LcoreParam(1, 0, 0) >>,
    << LcoreParam(0, 0, 0), LcoreParam(0, 1, 1) >>,
    << LcoreParam(1, 0, 1), LcoreParam(0, 0, 0) >> }

MCPortmaps ==
  { <<>>, << <<1, 0>> >>, << <<0, 2>>, <<1, 1>> >>, << <<0, 1>>, <<1, 2>> >> }

=============================================================================
