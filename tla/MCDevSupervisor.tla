-------------------------- MODULE MCDevSupervisor --------------------------
(***************************************************************************)
(* Instance of DevSupervisor: a library, an API and a web module; a kept    *)
(* service and one of the command line.                                     *)
(***************************************************************************)
EXTENDS DevSupervisor, TLC

CONSTANTS kept, cli

MCServices == {kept, cli}
MCCommandsOf == (kept :> 3) @@ (cli :> 1)
=============================================================================
