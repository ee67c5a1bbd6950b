----------------------------- MODULE DeviceApi ------------------------------
(***************************************************************************)
(* The API's side of a device login: the device code, which is             *)
(* better-auth's, and POST /device/token, which exchanges an approved code *)
(* for a session, registers the device under the user's quota and wraps    *)
(* the key material for the public key sent along.  One account.           *)
(***************************************************************************)
EXTENDS FiniteSets, Naturals

CONSTANTS Logins,      \* attempts to log in
          MaxDevices,  \* MAX_DEVICES_PER_USER
          Registered   \* how many devices the account has had before

ASSUME DeviceAssumption ==
  /\ IsFiniteSet(Logins)
  /\ MaxDevices \in Nat /\ Registered \in Nat

VARIABLES code,      \* the state of the device code of each login
          serving,   \* how far the exchange of an approved code has come
          devices,   \* the logins that have a device row
          crowded    \* history: logins let in while another was inserting

deviceVars == <<code, serving, devices, crowded>>

CodeStates == {"none", "pending", "approved", "denied", "expired", "used"}
Stages == {"none", "counting", "inserting"}

DeviceInit ==
  /\ code = [a \in Logins |-> "none"]
  /\ serving = [a \in Logins |-> "none"]
  /\ devices = {} /\ crowded = {}

Turned(a, from, to) ==
  /\ code[a] \in from /\ code' = [code EXCEPT ![a] = to]
  /\ UNCHANGED <<serving, devices, crowded>>

Issued(a) == Turned(a, {"none"}, "pending")
Approve(a) == Turned(a, {"pending"}, "approved")
Deny(a) == Turned(a, {"pending"}, "denied")
CodeExpires(a) == Turned(a, {"pending", "approved"}, "expired")

(* deviceToken: a code is good for one session.                            *)
Exchange(a) ==
  /\ code[a] = "approved" /\ code' = [code EXCEPT ![a] = "used"]
  /\ serving' = [serving EXCEPT ![a] = "counting"]
  /\ UNCHANGED <<devices, crowded>>

(* ensureExists: the count, then the insert.  For comparison, a quota with *)
(* room for one too many.                                                  *)
Count == Registered + Cardinality(devices)
FullByMore == Count > MaxDevices
Full == Count >= MaxDevices

Inserting == {a \in Logins : serving[a] = "inserting"}

CountDevices(a) ==
  /\ serving[a] = "counting"
  /\ serving' = [serving EXCEPT ![a] = IF Full THEN "none" ELSE "inserting"]
  /\ crowded' = IF ~Full /\ Inserting \ {a} # {} THEN crowded \cup {a}
                                                ELSE crowded
  /\ UNCHANGED <<code, devices>>

(* The row; the wrapped key material and the session's update, or an error *)
(* of theirs, are the answer, and the row stays in either case.            *)
InsertDevice(a) ==
  /\ serving[a] = "inserting"
  /\ serving' = [serving EXCEPT ![a] = "none"]
  /\ devices' = devices \cup {a}
  /\ UNCHANGED <<code, crowded>>

(* The session, the count or the insert fails: no row, a code used up.      *)
ServingFails(a) ==
  /\ serving[a] # "none" /\ serving' = [serving EXCEPT ![a] = "none"]
  /\ UNCHANGED <<code, devices, crowded>>
=============================================================================
