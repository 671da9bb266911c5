------------------------- MODULE MCCreateContainer -------------------------
(***************************************************************************)
(* CreateContainer for one task and six jobs, which differ in the network  *)
(* they ask for, in the commands createContainer has to run, and in what   *)
(* prepareContainer does not take.                                         *)
(***************************************************************************)
EXTENDS CreateContainer

CONSTANT t1

Plain ==
  [image |-> "image", command |-> "", args |-> <<>>, network |-> "",
   ports |-> <<>>, env |-> <<>>, hosts |-> <<>>, memory |-> "64",
   copy |-> <<>>, mount |-> <<>>, mountReadOnly |-> <<>>,
   attributes |-> <<>>]

\* The job of the README: a command, a port, a copy and a mount.
Bridged ==
  [Plain EXCEPT
     !.command = "nginx", !.args = <<"-g">>,
     !.ports = [http |-> "80"],
     !.env = [NOMAD_HOST_PORT_http |-> "20000", HOME |-> "/"],
     !.copy = <<<<"nginx.conf", "/usr", "x">>>>,
     !.mount = <<<<"www", "/mnt">>>>]

Host ==
  [Bridged EXCEPT
     !.network = "host",
     !.env = [HOME |-> "/"],
     !.hosts = <<"db", "web">>,
     !.mountReadOnly = <<<<"etc", "/etc">>, <<"lib", "/lib", "ro">>>>,
     !.attributes = <<<<"devfs_ruleset", "3">>, <<"ip", "fe80", "1">>>>]

\* A port without an address of the host, and a network of its own.
NoHostPort == [Bridged EXCEPT !.network = "alias", !.env = <<>>]

NoColon   == [Plain EXCEPT !.mount = <<<<"www">>>>]
NoCommand == [Plain EXCEPT !.args = <<"-g">>]

MCJobs == {Plain, Bridged, Host, NoHostPort, NoColon, NoCommand}
=============================================================================
