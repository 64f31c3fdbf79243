----------------------------- MODULE MCJobQueue -----------------------------
(* Instances of JobQueue for TLC.                                          *)
EXTENDS JobQueue

\* One operation that may be retried after reconciliation, one that may not,
\* and a read-only one.
CoreRequests == {<<"deploy_agent", "apply">>, <<"update_packages", "apply">>,
                 <<"health_check", "check">>}

ApplyAndCheck == {<<"deploy_agent", "apply">>, <<"health_check", "check">>}

DeployOnly == {<<"deploy_agent", "apply">>}

CheckOnly == {<<"health_check", "check">>}

NoRequests == {}
=============================================================================
