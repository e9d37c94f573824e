--------------------------- MODULE SlotDirectory ---------------------------
(***************************************************************************)
(* What x/coreslot promises the modules that read it.  x/rewards and       *)
(* x/mining see a slot through GetActiveSlots and GetSlot (status, payout  *)
(* and settlement address) and the two roles through GetAuthority and      *)
(* GetEmergencyAuthority; keys, powers, indexes and policies are invisible *)
(* to them.  CoreSlot is shown to implement this specification.            *)
(***************************************************************************)
EXTENDS Integers, FiniteSets

CONSTANTS
  SlotIds,          \* slot identifiers
  Accounts,         \* account addresses
  NoAccount,
  EconomicAccounts  \* the accounts economicaddress.Validate admits

ASSUME DirectoryAssumption ==
  NoAccount \notin Accounts /\ EconomicAccounts \subseteq Accounts

Roles == {"PRIMARY", "EMERGENCY"}
Statuses == {"ABSENT", "PENDING", "ACTIVE", "INACTIVE", "SUSPENDED", "REMOVED"}

\* The lifecycle of a record; nothing leaves REMOVED.
LifecycleEdges ==
  {<<"PENDING", "ACTIVE">>, <<"INACTIVE", "ACTIVE">>, <<"SUSPENDED", "ACTIVE">>,
   <<"ACTIVE", "INACTIVE">>,
   <<"PENDING", "SUSPENDED">>, <<"ACTIVE", "SUSPENDED">>, <<"INACTIVE", "SUSPENDED">>,
   <<"PENDING", "REMOVED">>, <<"INACTIVE", "REMOVED">>, <<"SUSPENDED", "REMOVED">>}

VARIABLES status, payout, settlement, holder

directoryVars == <<status, payout, settlement, holder>>

DirectoryTypeOK ==
  /\ status \in [SlotIds -> Statuses]
  /\ payout \in [SlotIds -> EconomicAccounts \cup {NoAccount}]
  /\ settlement \in [SlotIds -> EconomicAccounts \cup {NoAccount}]
  /\ holder \in [Roles -> Accounts]

ActiveSlots == {s \in SlotIds : status[s] = "ACTIVE"}

DirectoryInit ==
  /\ status \in [SlotIds -> {"ABSENT", "PENDING", "ACTIVE"}]
  /\ ActiveSlots # {}
  /\ payout \in [SlotIds -> EconomicAccounts \cup {NoAccount}]
  /\ settlement \in [SlotIds -> EconomicAccounts \cup {NoAccount}]
  /\ \A s \in SlotIds : /\ payout[s] = NoAccount <=> status[s] = "ABSENT"
                        /\ settlement[s] = NoAccount <=> status[s] = "ABSENT"
  /\ holder \in [Roles -> Accounts]

Register(s, pay, settle) ==
  /\ status[s] = "ABSENT"
  /\ status' = [status EXCEPT ![s] = "PENDING"]
  /\ payout' = [payout EXCEPT ![s] = pay]
  /\ settlement' = [settlement EXCEPT ![s] = settle]
  /\ UNCHANGED holder

\* The last ACTIVE slot cannot be taken out.
Move(s, to) ==
  /\ <<status[s], to>> \in LifecycleEdges
  /\ \E t \in SlotIds : (IF t = s THEN to ELSE status[t]) = "ACTIVE"
  /\ status' = [status EXCEPT ![s] = to]
  /\ UNCHANGED <<payout, settlement, holder>>

ChangePayout(s, a) ==
  /\ status[s] \in {"PENDING", "ACTIVE", "INACTIVE"}
  /\ payout' = [payout EXCEPT ![s] = a]
  /\ UNCHANGED <<status, settlement, holder>>

ChangeSettlement(s, a) ==
  /\ status[s] \in {"PENDING", "ACTIVE", "INACTIVE"}
  /\ settlement' = [settlement EXCEPT ![s] = a]
  /\ UNCHANGED <<status, payout, holder>>

HandOver(r, a) ==
  /\ holder' = [holder EXCEPT ![r] = a]
  /\ UNCHANGED <<status, payout, settlement>>

DirectoryNext ==
  \/ \E s \in SlotIds, pay, settle \in EconomicAccounts : Register(s, pay, settle)
  \/ \E s \in SlotIds, to \in Statuses : Move(s, to)
  \/ \E s \in SlotIds, a \in EconomicAccounts : ChangePayout(s, a)
  \/ \E s \in SlotIds, a \in EconomicAccounts : ChangeSettlement(s, a)
  \/ \E r \in Roles, a \in EconomicAccounts : HandOver(r, a)

DirectorySpec == DirectoryInit /\ [][DirectoryNext]_directoryVars

=============================================================================
