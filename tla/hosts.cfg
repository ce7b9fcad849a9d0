SPECIFICATION FairHostSpec
CONSTANTS
 Workspaces = {"w1","w2"}
 Tenant = {"s","t"}
 Custom = {"c","d"}
 Scenes <- MCScenes
 Role <- MCBoth
 Place <- MCPlace
 Default <- MCDefault
 McpV3 <- MCMcpV3
CHECK_DEADLOCK FALSE
INVARIANTS LabelOwned AdminSuspensionHolds ObjectsMatchRows RequestsReachRows
PROPERTIES TablesConverge
