CONSTANTS
    s1 = s1  s2 = s2  f1 = f1  h1 = h1  h2 = h2  none = none
    Senders <- MC_Senders
    Factories <- MC_Factories
    Paymasters <- MC_Paymasters
    Handlers <- MC_Handlers
    Nonces <- MC_Nonces
    OpSpace <- MC_OpSpace
    Upgradeable <- MC_Upgradeable
    NoEntity = none
    MaxAdds = 2
    MaxObjs = 2
    MaxCode = 1
    MaxClears = 1
    ThrottleThreshold = 1
    BanThreshold = 2

SPECIFICATION Spec
PROPERTIES QueuedOpEventuallyLeaves
