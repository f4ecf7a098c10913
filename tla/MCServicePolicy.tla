-------------------------- MODULE MCServicePolicy ---------------------------
(* One shell beside the timer.                                                *)
EXTENDS ServicePolicy

All == {"enable", "disable", "wallet set", "wallet clear", "token rotate",
        "mode now", "mode auto", "policy run", "policy enable",
        "policy disable"}
=============================================================================
