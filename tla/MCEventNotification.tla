------------------------ MODULE MCEventNotification ------------------------
(***************************************************************************)
(* EventNotification with two slots, a reader in the first of them, and a  *)
(* client that asks for that reader.  The second slot stays empty: what it *)
(* sends ends in words that are not mistaken for an error.                 *)
(***************************************************************************)
EXTENDS EventNotification

\* The application waits for the reader and for readers that come or go.
ReaderAndPnP == {{PnP, 1}}

\* The application waits for the reader.
ReaderOnly == {{1}}

=============================================================================
