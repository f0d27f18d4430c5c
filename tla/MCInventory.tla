---------------------------- MODULE MCInventory ----------------------------
(* The inventory with two servers and a project, one of each in the files. *)
EXTENDS Inventory, TLC
CONSTANTS h1, h2, a1
MCYamlServers  == {h1}
MCYamlProjects == a1 :> h1
============================================================================
