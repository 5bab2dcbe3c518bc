SPECIFICATION FairSpec
PROPERTIES GapRepaired AttemptSettles PanelBecomesTrue TransitionSettles NegotiationCompletes PipelineDrains
CHECK_DEADLOCK FALSE
