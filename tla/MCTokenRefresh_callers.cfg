\* Two agent callers and one account caller renew, log in and out, die, nap and lose answers.
SPECIFICATION FairSpec
CONSTANTS
  a1 = a1 a2 = a2 u1 = u1
  AgentCallers = {a1, a2}
  UserCallers = {u1}
  Mishaps = {"loss", "removal", "death", "nap"}
  Revokes = TRUE
  MaxLogins = 2
  MaxExpiries = 1
  MaxAsks = 2
INVARIANT Serialized
INVARIANT SpentNotPresented
INVARIANT RowIsLive
PROPERTY ResolvesEnd
