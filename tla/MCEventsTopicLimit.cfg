CONSTANTS
    TopicFilters <- MCTopicFilters
    MaxTopics <- MCMaxTopics
    MaxIds <- MCMaxIds
    MaxEvents <- MCMaxEvents
SPECIFICATION Spec
INVARIANT
    TopicsWithinDocumentedLimit
