SPECIFICATION ModemFairSpec
CONSTANTS
    half_duplex = TRUE
    Arguments <- CommandLines
    MaxFaults = 1
INVARIANT ModemTypeOK
INVARIANT EndsInReception
INVARIANT UseAlive
INVARIANT SafeAtEnd
INVARIANT AmplitudeLimited
INVARIANT BandAsAsked
PROPERTY DeafWhileSending
 
CHECK_DEADLOCK FALSE
