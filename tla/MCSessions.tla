----------------------------- MODULE MCSessions -----------------------------
(***************************************************************************)
(* A suite of one case of each kind; the ablation has the agent's case.    *)
(***************************************************************************)
EXTENDS Sessions

MCSuite == <<"agent", "reviewer">>
=============================================================================
