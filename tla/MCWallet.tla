------------------------------ MODULE MCWallet ------------------------------
(***************************************************************************)
(* Values for the wallet store and the multisig sync: two credentials, one *)
(* seed, two smart accounts of signers and two wallets, of which this      *)
(* install is a member of one.                                             *)
(***************************************************************************)
EXTENDS MultisigSync

CONSTANTS c1, c2, g1, A1, A2, A3, W1, W2, k1, m1, other

MCFactoryOf == [s \in {c1, c2, g1} |-> CASE s = c1 -> A1 [] s = c2 -> A2 [] OTHER -> A3]
\* The page still shows the account of c2 under the address funded before.
MCHinted    == [s \in {c1, c2} |-> IF s = c2 THEN A1 ELSE None]
MCMembersOf == [w \in {W1, W2} |-> IF w = W1 THEN {c1, g1, A1, other} ELSE {other}]
MCWalletOf  == [k \in {k1} |-> W1]

On(ops, by, busy, max) == [ops |-> ops, by |-> by, busy |-> busy, max |-> max]

MCScenes ==
    { On({"CREATE_OR_CONNECT_PASSKEY", "PASSKEY_REG_FINISH", "PASSKEY_AUTH_FINISH",
          "DELETE_ACCOUNT", "GET_ACCOUNTS", "SW_RESTART"}, {c1, c2}, 1, 3),
      On({"IMPORT_MNEMONIC_ACCOUNT", "PASSKEY_REG_FINISH", "UNLOCK_MNEMONIC_VAULT",
          "DELETE_ACCOUNT", "LOGOUT", "SET_ACTIVE_ACCOUNT", "SET_DEVELOPER_MODE"}, {c1, g1}, 1, 3),
      On({"IMPORT_MNEMONIC_ACCOUNT", "UNLOCK_MNEMONIC_VAULT", "DELETE_ACCOUNT", "LOGOUT",
          "SW_RESTART"}, {g1}, 1, 3),
      On({"CREATE_OR_CONNECT_PASSKEY", "PASSKEY_AUTH_FINISH", "RENAME_ACCOUNT",
          "DELETE_ACCOUNT"}, {c1}, 2, 2),
      On({"CREATE_OR_CONNECT_PASSKEY", "RENAME_ACCOUNT", "DELETE_ACCOUNT"}, {c1}, 2, 3),
      On({"PASSKEY_CONFIRM_SEQ", "PASSKEY_AUTH_FINISH", "SW_RESTART"}, {c1}, 2, 2),
      On({"PASSKEY_REG_FINISH", "SYNC", "ADD_INVITE", "REMOVE_INVITE", "DELETE_ACCOUNT",
          "DRAFT_META", "ADD_EXISTING", "ENSURE", "LOGOUT"}, {c1}, 1, 4),
      On({"PASSKEY_REG_FINISH", "SYNC", "CREATE_LOCAL", "DELETE_ACCOUNT"}, {c1}, 1, 3),
      On({"IMPORT_MNEMONIC_ACCOUNT", "SYNC", "DELETE_ACCOUNT"}, {g1}, 2, 3) }
=============================================================================
