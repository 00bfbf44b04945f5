\* Every operation: two rows of users, one key, two roles, one restart.
CONSTANTS
  h1 = h1
  h2 = h2
  admin = admin
  bob = bob
  default = default
  Handlers = {h1, h2}
  Names = {admin, bob}
  Admin = admin
  Passwords = {default}
  Default = default
  AccountRoles = {"admin", "developer"}
  Operations = {"create", "role", "name", "reset", "change", "delete", "new_key", "delete_key"}
  Ephemeral = FALSE
  MaxUsers = 2
  MaxKeys = 1
  MaxStarts = 2
SYMMETRY HandlersSymmetry
SPECIFICATION AccountsSpec
INVARIANTS
  CredentialsKeepTheirAccount
  RequestsKeepTheirAccount
  AdminPasswordIsFlagged
