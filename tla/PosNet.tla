------------------------------- MODULE PosNet -------------------------------
(***************************************************************************)
(* What client processes and the server share: one TCP connection per      *)
(* client process, and, when both run in one directory, the database whose *)
(* RocksDB lock only one handle can hold.                                  *)
(*                                                                         *)
(* A client has at most one request outstanding, so each direction of a    *)
(* connection holds at most one message.  The client process may be gone   *)
(* while its last request is still to be read, and the handler task may be *)
(* gone (it panicked, or the server crashed) while the client still waits. *)
(***************************************************************************)
EXTENDS PosTypes

CONSTANT SharedDb   \* client and server run in one directory, on one PoR_Database
ASSUME SharedDbAssumption == SharedDb \in BOOLEAN

VARIABLES
  ends,       \* [Slots -> SUBSET {"client", "server"}]: the tasks attached to the connection
  toServer,   \* [Slots -> Request or None]
  toClient,   \* [Slots -> Response or None]
  dbLock      \* handles open on the database: pairs <<"client" or "server", slot>>

netVars == <<ends, toServer, toClient, dbLock>>

NetTypeOK ==
  /\ ends \in [Slots -> SUBSET {"client", "server"}]
  /\ toServer \in [Slots -> Request \cup {None}]
  /\ toClient \in [Slots -> Response \cup {None}]
  /\ dbLock \subseteq {"client", "server"} \X Slots

NetInit ==
  /\ ends = [s \in Slots |-> {}]
  /\ toServer = [s \in Slots |-> None]
  /\ toClient = [s \in Slots |-> None]
  /\ dbLock = {}

\* Surreal::new::<RocksDb> fails while another handle is open on the directory.
DbBusy(role) == \E h \in dbLock : SharedDb \/ h[1] = role
=============================================================================
