SPECIFICATION HostSpec
CONSTANTS
 Workspaces = {"w1","w2"}
 Tenant = {"s","t"}
 Custom = {"c","d"}
 Scenes <- MCColdStart
 Role <- MCSplit
 Place <- MCPlace
 Default <- MCDefault
 McpV3 <- MCMcpV3
CHECK_DEADLOCK FALSE
INVARIANT RequestsReachRows
