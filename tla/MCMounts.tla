------------------------------ MODULE MCMounts ------------------------------
(***************************************************************************)
(* The runtime of java on hosts with and without merged directories; the   *)
(* directory of java.security lies in /usr.  The host may have a mount     *)
(* below /usr, and one below the directory of java.security.               *)
(***************************************************************************)
EXTENDS RuntimeMounts

MCSources == <<"usr", "lib", "lib64", "bin", "security">>
MCInside  == {<<"security", "usr">>}
MCHosts   == {k \in [Range(MCSources) -> {"dir", "link", "absent"}] :
                k["usr"] = "dir" /\ k["security"] # "link"}
MCMounted == {{}, {"usr"}, {"usr", "security"}}
=============================================================================
