-------------------------- MODULE MCClusterObjects --------------------------
(***************************************************************************)
(* A cluster that goes between plain with a PodMonitor, TLS with one       *)
(* additional CA, a ServiceMonitor and the user's own exporter rules, the  *)
(* same from another issuer with no monitor and the built-in rules, TLS    *)
(* without an issuer, and plain on ephemeral storage.                      *)
(***************************************************************************)
EXTENDS ClusterObjects

Plain == [tls |-> FALSE, issuer |-> "", cas |-> <<>>, pdb |-> TRUE, ephemeral |-> FALSE,
          mon |-> TRUE, kind |-> "PodMonitor", custom |-> FALSE]
Full == [tls |-> TRUE, issuer |-> "a", cas |-> <<"e1">>, pdb |-> FALSE, ephemeral |-> FALSE,
         mon |-> TRUE, kind |-> "ServiceMonitor", custom |-> TRUE]
MCSpecs ==
    {Plain, Full,
     [Full EXCEPT !.issuer = "b", !.pdb = TRUE, !.kind = "None", !.custom = FALSE],
     [Plain EXCEPT !.tls = TRUE, !.mon = FALSE],
     [Plain EXCEPT !.ephemeral = TRUE, !.mon = FALSE]}

\* The entry is missing, or holds another CA, twice.
MCContents == {Missing, <<"corp", "corp">>}

\* The plain cluster with nothing there that others provide, and the full one
\* with all of it; any other start is an edit and a Change away.
NoSources == [n \in Entries \cup {"tls", "rules"} |-> Missing]
MCStarts ==
    {[spec |-> Plain, crds |-> FALSE, src |-> NoSources],
     [spec |-> Full, crds |-> TRUE,
      src |-> [NoSources EXCEPT !["e1"] = <<"corp", "corp">>, !["rules"] = <<>>]]}

=============================================================================
