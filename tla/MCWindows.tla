----------------------------- MODULE MCWindows -----------------------------
(* A small instance of WindowsAgent. *)
EXTENDS WindowsAgent
WindowsWork == {<<"collect_package_inventory", "check">>, <<"update_packages", "plan">>,
                <<"update_packages", "apply">>, <<"update_agent", "apply">>}
=============================================================================
