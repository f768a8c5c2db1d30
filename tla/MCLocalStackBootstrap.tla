------------------------ MODULE MCLocalStackBootstrap ------------------------
EXTENDS LocalStackBootstrap

(* One stream of the script, one that it does not know.                    *)
MCScriptStreams == <<"mes-events">>
MCOtherStreams == {"fab-events"}
=============================================================================
