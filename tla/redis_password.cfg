SPECIFICATION Spec
CONSTANTS
  Nil = Nil
  Junk = Junk
  Hosts = {"g", "h"}
  Passwords = {"p", "q"}
  Amounts <- MCAmounts
  Word = 256
  Second = 10
  Envs <- MCEnvs
INVARIANT PasswordBesideUrl
