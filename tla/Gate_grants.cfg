SPECIFICATION Spec
CONSTANTS
  Code = {s1, s2}
  MaxClients = 2
  MaxRegistrations = 4
  MaxMints = 3
SYMMETRY Symmetry
INVARIANT GrantsSurvive
INVARIANT OneTokenPerSignIn
PROPERTY GrantedClientsStay
PROPERTY KeepsThePromise
